---- MODULE Spec2Model ----
(***************************************************************************)
(* A model of the COIN_NET node: the script VM, the UTXO set, the wallet,  *)
(* the mempool and the consensus state (Node), with the operations the     *)
(* network handler and the mining coordinator apply to them.               *)
(*                                                                         *)
(* Representation.  Every byte vector and every Rust String is a sequence  *)
(* of integers: a byte is 0..255, a char is its code point.  SHA-256 is an *)
(* ideal (collision-free) hash: the digest of m is the sequence <<-1>> \o m*)
(* so two digests are equal iff the hashed strings are.  A digest's bytes  *)
(* are opaque: its hex text is <<-2>> \o digest and its lossy UTF-8 text   *)
(* is <<-4>> \o digest.  An ECDSA signature by key k over the bytes m is   *)
(* <<-3, k>> \o m (ideal: it verifies under k's public key over m only).   *)
(* usize is UsizeBits wide.                                                *)
(***************************************************************************)
EXTENDS Integers, Sequences, FiniteSets, Bags, TLC

VARIABLES
    overflow_checks,  \* the build: TRUE panics on usize overflow, FALSE wraps
    node,             \* the Node behind the reader-writer lock
    router_alive,     \* start_network_handler has not panicked
    cmd_alive,        \* network_command_handling has not panicked
    miner_pc,         \* start_mine_handling: "init", "run", "join", "stopping",
                      \* "done" (returned) or "dead" (panicked)
    candidate,        \* the block the mining threads work on, <<>> if none
    network_rx,       \* NetworkCommand::Block messages queued for the command task
    mining_rx,        \* number of MiningCommand::UpdateBlock queued
    last,             \* the event handled last and its outcome
    vm,               \* a run of the script VM, opcode by opcode
    q,                \* a query of the UTXO set or of the wallet
    threads,          \* the mining threads: stop flag, positions, blocks sent
    net,              \* the peer manager, the writer tasks, the last handler's sends
    tasks             \* where the router and the command task stand inside a
                      \* handler, and who holds the Node lock and the
                      \* peer-manager mutex

vars == <<overflow_checks, node, router_alive, cmd_alive, miner_pc, candidate,
          network_rx, mining_rx, last, vm, q, threads, net, tasks>>

(* ------------------------------ bounds --------------------------------- *)
\* width of usize in the model (64 in the program)
UsizeBits == 6
\* users with a key pair
NumUsers == 3
\* blocks a chain may grow to
MaxHeight == 2
\* values get_timestamp() may return
MaxTime == 1
\* nonces a mining thread may find
MaxNonce == 1
\* mined blocks waiting in the network command channel
MaxQueued == 1
\* UpdateBlock commands waiting in the mining command channel
MaxPending == 1
\* blocks in one Blocks message
MaxBatch == 2
\* peers the node is connected to
NumPeers == 2

UsizeMod == 2 ^ UsizeBits
Users == 1 .. NumUsers
Peers == 1 .. NumPeers

(* ---------------------------- sequences -------------------------------- *)
RECURSIVE Concat(_)
Concat(ss) == IF ss = <<>> THEN <<>> ELSE Head(ss) \o Concat(Tail(ss))

RECURSIVE SumSeq(_)
SumSeq(s) == IF s = <<>> THEN 0 ELSE Head(s) + SumSeq(Tail(s))

Range(s) == {s[i] : i \in DOMAIN s}

(* ------------------------- hashing and codecs -------------------------- *)
\* miner.rs sha256: SHA-256 of the string's bytes
sha256(message) == <<-1>> \o message

HexDigit(n) == IF n < 10 THEN 48 + n ELSE 87 + n

\* hex::encode: two lower-case hex digits per byte
RECURSIVE hex_encode(_)
hex_encode(bytes) ==
    IF bytes = <<>> THEN <<>>
    ELSE IF Head(bytes) < 0 THEN <<-2>> \o bytes
    ELSE <<HexDigit(Head(bytes) \div 16), HexDigit(Head(bytes) % 16)>>
             \o hex_encode(Tail(bytes))

\* String::from_utf8_lossy(..).to_string(), for bytes below 0xE0: ASCII is
\* kept, a well-formed two-byte sequence is one char, any other byte becomes
\* U+FFFD
RECURSIVE from_utf8_lossy(_)
from_utf8_lossy(bytes) ==
    IF bytes = <<>> THEN <<>>
    ELSE LET h == Head(bytes) IN
         IF h < 0 THEN <<-4>> \o bytes
         ELSE IF h < 128 THEN <<h>> \o from_utf8_lossy(Tail(bytes))
         ELSE IF /\ h >= 194 /\ h <= 223 /\ Len(bytes) >= 2
                 /\ bytes[2] >= 128 /\ bytes[2] <= 191
              THEN <<(h - 192) * 64 + (bytes[2] - 128)>>
                       \o from_utf8_lossy(Tail(Tail(bytes)))
         ELSE <<65533>> \o from_utf8_lossy(Tail(bytes))

(* ------------------------------- users --------------------------------- *)
\* User::get_pub_key: the SEC1 bytes of the user's public key (a prefix
\* byte and the coordinate bytes)
get_pub_key(user) == <<2, 64 + user, 200>>

\* User::get_pub_key_hash
get_pub_key_hash(user) == sha256(hex_encode(get_pub_key(user)))

\* VerifyingKey::from_sec1_bytes(..).is_ok()
IsPubKey(bytes) == \E u \in Users : get_pub_key(u) = bytes
KeyOwner(bytes) == CHOOSE u \in Users : get_pub_key(u) = bytes

\* k256 signing of the bytes msg with user's private key
EcdsaSign(user, msg) == <<-3, user>> \o msg

\* Signature::from_slice(..).is_ok()
IsSignature(bytes) == Len(bytes) >= 2 /\ bytes[1] = -3

\* User::sign(message: String)
User_sign(user, message) == EcdsaSign(user, sha256(message))

\* verify_sig on a parsed key and signature
verify_sig(public_key, message_hash, signature) ==
    signature = EcdsaSign(KeyOwner(public_key), message_hash)

(* ------------------------------ scripts -------------------------------- *)
PUSHBYTES(data) == [op |-> "PUSHBYTES", data |-> data]
DUP == [op |-> "DUP", data |-> <<>>]
SHA256 == [op |-> "SHA256", data |-> <<>>]
CHECKSIG == [op |-> "CHECKSIG", data |-> <<>>]
EQUALVERIFY == [op |-> "EQUALVERIFY", data |-> <<>>]

Script_empty == <<>>
Script_concat(s1, s2) == s1 \o s2
P2PKHInput(sig, pubkey) == <<PUSHBYTES(sig), PUSHBYTES(pubkey)>>
P2PKHOutput(pubkey_hash) ==
    <<DUP, SHA256, PUSHBYTES(pubkey_hash), EQUALVERIFY, CHECKSIG>>

\* Script::P2PKHOutput_pubkey_hash: Option as a sequence of length 0 or 1
P2PKHOutput_pubkey_hash(script) ==
    IF Len(script) >= 3 /\ script[3].op = "PUSHBYTES"
    THEN <<script[3].data>> ELSE <<>>

(* --------------------------- serialization ----------------------------- *)
\* serde_json of each type, as an injective flattening (lengths prefixed)
SerBytes(b) == <<Len(b)>> \o b

SerOp(o) ==
    CASE o.op = "PUSHBYTES" -> <<0>> \o SerBytes(o.data)
      [] o.op = "DUP" -> <<1>>
      [] o.op = "SHA256" -> <<2>>
      [] o.op = "CHECKSIG" -> <<3>>
      [] o.op = "EQUALVERIFY" -> <<4>>

SerScript(s) == <<Len(s)>> \o Concat([i \in DOMAIN s |-> SerOp(s[i])])

SerInput(i) == SerBytes(i.prev) \o <<i.output_index>> \o SerScript(i.script)

SerOutput(o) == <<o.value>> \o SerScript(o.script)

\* Transaction::serialize
Transaction_serialize(tx) ==
    <<tx.timestamp, tx.version, tx.input_count, Len(tx.inputs)>>
        \o Concat([i \in DOMAIN tx.inputs |-> SerInput(tx.inputs[i])])
        \o <<tx.output_count, Len(tx.outputs)>>
        \o Concat([i \in DOMAIN tx.outputs |-> SerOutput(tx.outputs[i])])

TxHash(tx) == sha256(Transaction_serialize(tx))

is_coinbase(transaction) == transaction.input_count = 0

\* compute_sig_hash; input_index is 0-based and must be a position of
\* tx.inputs (the program indexes the vector with it)
compute_sig_hash(tx, input_index, utxo) ==
    LET modified_tx ==
            [tx EXCEPT !.inputs =
                [i \in DOMAIN tx.inputs |->
                    [tx.inputs[i] EXCEPT !.script =
                        IF i = input_index + 1 THEN utxo.script
                        ELSE Script_empty]]]
    IN sha256(Transaction_serialize(modified_tx))

(* ----------------------------- script VM ------------------------------- *)
Top(stack) == stack[Len(stack)]
Pop(stack) == SubSeq(stack, 1, Len(stack) - 1)

\* a spelling of the EQUALVERIFY arm that pops the two items without
\* comparing them
ExecEqualVerify_no_compare(stack) ==
    IF Len(stack) >= 2
    THEN [stack |-> Pop(Pop(stack)), status |-> "run"]
    ELSE [stack |-> <<>>, status |-> "false"]

\* the EQUALVERIFY arm of Script::validate_script
ExecEqualVerify(stack) ==
    IF Len(stack) >= 2
    THEN [stack |-> Pop(Pop(stack)),
          status |-> IF Top(stack) # Top(Pop(stack)) THEN "false" ELSE "run"]
    ELSE [stack |-> <<>>, status |-> "false"]

\* one opcode of Script::validate_script acting on the stack; status is
\* "run" (go on), "false" (return false) or "panic" (an unwrap or an index
\* out of bounds aborts the task)
ExecOp(stack, o, tx, input_index, utxo) ==
    CASE o.op = "PUSHBYTES" ->
            [stack |-> Append(stack, o.data), status |-> "run"]
      [] o.op = "DUP" ->
            IF stack # <<>>
            THEN [stack |-> Append(stack, Top(stack)), status |-> "run"]
            ELSE [stack |-> stack, status |-> "false"]
      [] o.op = "SHA256" ->
            IF stack # <<>>
            THEN [stack |-> Append(Pop(stack),
                                   sha256(from_utf8_lossy(Top(stack)))),
                  status |-> "run"]
            ELSE [stack |-> stack, status |-> "run"]
      [] o.op = "EQUALVERIFY" -> ExecEqualVerify(stack)
      [] o.op = "CHECKSIG" ->
            IF input_index >= Len(tx.inputs)
            THEN [stack |-> stack, status |-> "panic"]
            ELSE IF Len(stack) < 2
            THEN [stack |-> <<>>, status |-> "false"]
            ELSE LET sighash == compute_sig_hash(tx, input_index, utxo)
                     pk == Top(stack)
                     sig == Top(Pop(stack))
                 IN IF ~IsPubKey(pk) \/ ~IsSignature(sig)
                    THEN [stack |-> Pop(Pop(stack)), status |-> "panic"]
                    ELSE IF verify_sig(pk, sighash, sig)
                    THEN [stack |-> Append(Pop(Pop(stack)), <<1>>),
                          status |-> "run"]
                    ELSE [stack |-> Pop(Pop(stack)), status |-> "false"]

\* the test after the last opcode: the top exists and has a non-zero byte
StackAccepts(stack) ==
    stack # <<>> /\ \E i \in DOMAIN Top(stack) : Top(stack)[i] # 0

RECURSIVE RunScript(_, _, _, _, _)
RunScript(script, stack, tx, input_index, utxo) ==
    IF script = <<>> THEN [stack |-> stack, status |-> "run"]
    ELSE LET r == ExecOp(stack, Head(script), tx, input_index, utxo)
         IN IF r.status # "run" THEN r
            ELSE RunScript(Tail(script), r.stack, tx, input_index, utxo)

\* Script::validate_script: "true", "false" or "panic"
validate_script(script, tx, input_index, utxo) ==
    LET r == RunScript(script, <<>>, tx, input_index, utxo)
    IN IF r.status # "run" THEN r.status
       ELSE IF StackAccepts(r.stack) THEN "true" ELSE "false"

(* --------------------------- transactions ------------------------------ *)
\* Transaction::reward; timestamp is get_timestamp()
Transaction_reward(reward, pubkey, version, timestamp) ==
    [timestamp |-> timestamp, version |-> version,
     input_count |-> 0, inputs |-> <<>>, output_count |-> 1,
     outputs |-> <<[value |-> reward,
                    script |-> P2PKHOutput(sha256(hex_encode(pubkey)))]>>]

\* Transaction::new; inputs is a sequence of <<<<hash, index>>, output>>,
\* outputs a sequence of <<hex public key, amount>>
Transaction_new(version, user, inputs, outputs, timestamp) ==
    LET transaction ==
            [timestamp |-> timestamp, version |-> version,
             input_count |-> Len(inputs),
             inputs |-> [i \in DOMAIN inputs |->
                            [prev |-> inputs[i][1][1],
                             output_index |-> inputs[i][1][2],
                             script |-> Script_empty]],
             output_count |-> Len(outputs),
             outputs |-> [i \in DOMAIN outputs |->
                            [value |-> outputs[i][2],
                             script |-> P2PKHOutput(sha256(outputs[i][1]))]]]
    IN [transaction EXCEPT !.inputs =
           [i \in DOMAIN inputs |->
               [transaction.inputs[i] EXCEPT !.script =
                   P2PKHInput(
                       User_sign(user, hex_encode(
                           compute_sig_hash(transaction, i - 1, inputs[i][2]))),
                       get_pub_key(user))]]]

(* ------------------------------- usize --------------------------------- *)
\* a + b and a - b on usize: the wrapped value, and whether the build panics
usize_add(a, b) ==
    [val |-> (a + b) % UsizeMod,
     panic |-> overflow_checks /\ a + b >= UsizeMod]

usize_sub(a, b) ==
    [val |-> (a - b + UsizeMod) % UsizeMod,
     panic |-> overflow_checks /\ a < b]

(* ------------------------------ UTXO set ------------------------------- *)
\* UTXOS: HashMap<(hash, index), TxOutput>, a function on keys <<hash, index>>
UTXOS_new == [k \in {} |-> 0]

UTXOS_insert(utxos, key, output) ==
    [k \in DOMAIN utxos \cup {key} |-> IF k = key THEN output ELSE utxos[k]]

UTXOS_remove(utxos, key) == [k \in DOMAIN utxos \ {key} |-> utxos[k]]

\* UTXOS::get: Option as a sequence of length 0 or 1
UTXOS_get(utxos, output_hash, index) ==
    IF <<output_hash, index>> \in DOMAIN utxos
    THEN <<utxos[<<output_hash, index>>]>> ELSE <<>>

None == [tag |-> "None", val |-> 0]
Panic == [tag |-> "Panic", val |-> 0]
Some(v) == [tag |-> "Some", val |-> v]

\* the loop of get_fee over the inputs
RECURSIVE TotalIn(_, _, _)
TotalIn(utxos, inputs, total_in) ==
    IF inputs = <<>> THEN Some(total_in)
    ELSE LET a == UTXOS_get(utxos, Head(inputs).prev, Head(inputs).output_index)
         IN IF a = <<>> THEN None
            ELSE LET s == usize_add(total_in, a[1].value)
                 IN IF s.panic THEN Panic
                    ELSE TotalIn(utxos, Tail(inputs), s.val)

\* outputs.iter().map(|o| o.value).sum()
RECURSIVE TotalOut(_, _)
TotalOut(outputs, total_out) ==
    IF outputs = <<>> THEN Some(total_out)
    ELSE LET s == usize_add(total_out, Head(outputs).value)
         IN IF s.panic THEN Panic ELSE TotalOut(Tail(outputs), s.val)

\* UTXOS::get_fee: Some(fee), None, or Panic (overflow in a checked build)
get_fee(utxos, transaction) ==
    LET tin == TotalIn(utxos, transaction.inputs, 0)
        tout == TotalOut(transaction.outputs, 0)
    IN IF tin.tag # "Some" THEN tin
       ELSE IF tout.tag # "Some" THEN tout
       ELSE IF tout.val > tin.val THEN None
       ELSE Some(tin.val - tout.val)

\* the loop of validate_transaction over the inputs; every input is in utxos
RECURSIVE ValidateInputs(_, _, _)
ValidateInputs(utxos, transaction, inputs) ==
    IF inputs = <<>> THEN "true"
    ELSE LET input == Head(inputs)
             utxo == utxos[<<input.prev, input.output_index>>]
             script == Script_concat(input.script, utxo.script)
             v == validate_script(script, transaction, input.output_index, utxo)
         IN IF v = "panic" THEN "panic"
            ELSE IF v = "true" THEN "false"
            ELSE ValidateInputs(utxos, transaction, Tail(inputs))

\* UTXOS::validate_transaction: "true", "false" or "panic"
validate_transaction(utxos, transaction) ==
    IF is_coinbase(transaction) THEN "true"
    ELSE LET fee == get_fee(utxos, transaction)
         IN IF fee.tag = "Panic" THEN "panic"
            ELSE IF fee.tag = "None" THEN "false"
            ELSE ValidateInputs(utxos, transaction, transaction.inputs)

RECURSIVE RemoveInputs(_, _)
RemoveInputs(utxos, inputs) ==
    IF inputs = <<>> THEN utxos
    ELSE RemoveInputs(
             UTXOS_remove(utxos, <<Head(inputs).prev, Head(inputs).output_index>>),
             Tail(inputs))

RECURSIVE InsertOutputs(_, _, _, _)
InsertOutputs(utxos, hash, outputs, index) ==
    IF index >= Len(outputs) THEN utxos
    ELSE InsertOutputs(UTXOS_insert(utxos, <<hash, index>>, outputs[index + 1]),
                       hash, outputs, index + 1)

\* UTXOS::add_transaction
add_transaction(utxos, transaction) ==
    InsertOutputs(RemoveInputs(utxos, transaction.inputs),
                  TxHash(transaction), transaction.outputs, 0)

RECURSIVE AddTransactions(_, _)
AddTransactions(utxos, transactions) ==
    IF transactions = <<>> THEN utxos
    ELSE AddTransactions(add_transaction(utxos, Head(transactions)),
                         Tail(transactions))

\* UTXOS::add_block: the set after the block (the method returns true always)
UTXOS_add_block(utxos, block) == AddTransactions(utxos, block.transactions)

(* ------------------------------- wallet -------------------------------- *)
Wallet_new(pub_key) == [value |-> 0, utxos |-> UTXOS_new, pub_key |-> pub_key]

\* the first loop of Wallet::update for one transaction; acc is
\* [wallet, panic]
RECURSIVE WalletSpend(_, _)
WalletSpend(acc, inputs) ==
    IF inputs = <<>> \/ acc.panic THEN acc
    ELSE LET input == Head(inputs)
             output == UTXOS_get(acc.wallet.utxos, input.prev, input.output_index)
         IN IF output = <<>> THEN WalletSpend(acc, Tail(inputs))
            ELSE LET d == usize_sub(acc.wallet.value, output[1].value)
                 IN IF d.panic THEN [acc EXCEPT !.panic = TRUE]
                    ELSE WalletSpend(
                        [acc EXCEPT !.wallet.value = d.val,
                                    !.wallet.utxos = UTXOS_remove(
                                        acc.wallet.utxos,
                                        <<input.prev, input.output_index>>)],
                        Tail(inputs))

\* the second loop of Wallet::update for one transaction
RECURSIVE WalletReceive(_, _, _, _)
WalletReceive(acc, tx_hash, outputs, index) ==
    IF index >= Len(outputs) \/ acc.panic THEN acc
    ELSE LET output == outputs[index + 1]
             pk_hash == sha256(hex_encode(acc.wallet.pub_key))
         IN IF P2PKHOutput_pubkey_hash(output.script) = <<pk_hash>>
            THEN LET w1 == [acc.wallet EXCEPT !.utxos =
                               UTXOS_insert(acc.wallet.utxos, <<tx_hash, index>>,
                                            output)]
                     s == usize_add(w1.value, output.value)
                 IN IF s.panic THEN [wallet |-> w1, panic |-> TRUE]
                    ELSE WalletReceive(
                             [wallet |-> [w1 EXCEPT !.value = s.val],
                              panic |-> FALSE],
                             tx_hash, outputs, index + 1)
            ELSE WalletReceive(acc, tx_hash, outputs, index + 1)

RECURSIVE WalletTransactions(_, _)
WalletTransactions(acc, transactions) ==
    IF transactions = <<>> \/ acc.panic THEN acc
    ELSE LET tx == Head(transactions)
             a1 == WalletSpend(acc, tx.inputs)
             a2 == WalletReceive(a1, TxHash(tx), tx.outputs, 0)
         IN WalletTransactions(a2, Tail(transactions))

\* Wallet::update: [wallet, panic]; at a panic the wallet is as far as the
\* loops got
Wallet_update(wallet, block) ==
    WalletTransactions([wallet |-> wallet, panic |-> FALSE], block.transactions)

\* Wallet::get_inputs: the set of results the HashMap's iteration order
\* allows, each [tag, inputs, total] with tag "Some", "None" or "Panic";
\* inputs is a sequence of <<key, output>>
RECURSIVE GetInputsFrom(_, _, _, _)
GetInputsFrom(utxos, value, inputs, cur_val) ==
    IF cur_val > value
    THEN {[tag |-> "Some", inputs |-> inputs, total |-> cur_val]}
    ELSE IF DOMAIN utxos = {}
    THEN {[tag |-> "None", inputs |-> <<>>, total |-> 0]}
    ELSE UNION {LET s == usize_add(cur_val, utxos[key].value)
                IN IF s.panic
                   THEN {[tag |-> "Panic", inputs |-> <<>>, total |-> 0]}
                   ELSE GetInputsFrom(UTXOS_remove(utxos, key), value,
                                      Append(inputs, <<key, utxos[key]>>), s.val)
                : key \in DOMAIN utxos}

get_inputs(wallet, value) == GetInputsFrom(wallet.utxos, value, <<>>, 0)

(* ------------------------------ mempool -------------------------------- *)
\* the bag of the items of a vector
BagOfSeq(v) ==
    LET items == {v[i] : i \in DOMAIN v}
    IN [x \in items |-> Cardinality({i \in DOMAIN v : v[i] = x})]

\* TransactionWithFee; Eq and Hash look at the transaction only, Ord at the
\* fee only
TransactionWithFee_new(transaction, fee) ==
    [transaction |-> transaction, fee |-> fee]

\* an equality that looks at the fee as well
TxwfEq_with_fee(a, b) == a = b

TxwfEq(a, b) == a.transaction = b.transaction

\* HeapSet: the BinaryHeap is a bag, the HashSet a set with at most one item
\* per transaction
HeapSet_new == [heap |-> EmptyBag, elements |-> {}]

HeapSet_push(hs, item) ==
    IF \E e \in hs.elements : TxwfEq(e, item)
    THEN [hs |-> hs, ret |-> FALSE]
    ELSE [hs |-> [heap |-> hs.heap (+) SetToBag({item}),
                  elements |-> hs.elements \cup {item}],
          ret |-> TRUE]

\* a pop that takes any item of the heap
HeapSet_pop_any(hs) ==
    {[hs |-> [heap |-> hs.heap (-) SetToBag({item}),
              elements |-> {e \in hs.elements : ~TxwfEq(e, item)}],
      item |-> item]
     : item \in BagToSet(hs.heap)}

\* HeapSet::pop: the results the heap allows (ties between equal fees are
\* the heap's choice); empty set when the heap is empty
HeapSet_pop(hs) ==
    {[hs |-> [heap |-> hs.heap (-) SetToBag({item}),
              elements |-> {e \in hs.elements : ~TxwfEq(e, item)}],
      item |-> item]
     : item \in {x \in BagToSet(hs.heap) :
                    \A y \in BagToSet(hs.heap) : y.fee <= x.fee}}

HeapSet_remove(hs, item) ==
    IF \E e \in hs.elements : TxwfEq(e, item)
    THEN [heap |-> [x \in {y \in BagToSet(hs.heap) : ~TxwfEq(y, item)}
                       |-> hs.heap[x]],
          elements |-> {e \in hs.elements : ~TxwfEq(e, item)}]
    ELSE hs

\* HeapSet::from_vec: the heap takes every item of the vector, the set the
\* first item of each identity
HeapSet_from_vec(v) ==
    [heap |-> BagOfSeq(v),
     elements |-> {v[i] : i \in {k \in DOMAIN v :
                                    \A j \in 1 .. k - 1 : ~TxwfEq(v[j], v[k])}}]

Mempool_new == HeapSet_new
Mempool_add(mempool, tx, fee) ==
    HeapSet_push(mempool, TransactionWithFee_new(tx, fee))
Mempool_size(mempool) == Cardinality(mempool.elements)

RECURSIVE Mempool_update(_, _)
Mempool_update(mempool, txs) ==
    IF txs = <<>> THEN mempool
    ELSE Mempool_update(HeapSet_push(mempool, Head(txs)).hs, Tail(txs))

\* a remove that looks the item up by transaction and fee
Mempool_remove_by_value(mempool, transaction) ==
    LET item == TransactionWithFee_new(transaction, 0)
    IN IF item \in mempool.elements
       THEN [heap |-> [x \in BagToSet(mempool.heap) \ {item}
                          |-> mempool.heap[x]],
             elements |-> mempool.elements \ {item}]
       ELSE mempool

Mempool_remove(mempool, transaction) ==
    HeapSet_remove(mempool, TransactionWithFee_new(transaction, 0))

Mempool_from_vec(txs) == HeapSet_from_vec(txs)
MempoolTxs(mempool) == {e.transaction : e \in mempool.elements}

\* messages.rs TX_PER_BLOCK
TX_PER_BLOCK == 10

RECURSIVE PopUpTo(_, _)
PopUpTo(hs, n) ==
    IF n = 0 \/ hs.heap = EmptyBag THEN {<<>>}
    ELSE UNION {{<<r.item.transaction>> \o rest : rest \in PopUpTo(r.hs, n - 1)}
                : r \in HeapSet_pop(hs)}

\* a get_next_transactions without the TX_PER_BLOCK limit
Mempool_get_next_transactions_all(mempool) ==
    PopUpTo(mempool, BagCardinality(mempool.heap))

\* Mempool::get_next_transactions: the sequences the heap may yield
Mempool_get_next_transactions(mempool) == PopUpTo(mempool, TX_PER_BLOCK)

(* -------------------------------- blocks ------------------------------- *)
\* Block::rec_merkle_root over the serialized transactions
RECURSIVE rec_merkle_root(_)
rec_merkle_root(transactions) ==
    LET n == Len(transactions) IN
    CASE n = 0 -> sha256(<<48, 48, 48, 48>>)
      [] n = 1 -> sha256(transactions[1] \o transactions[1])
      [] n = 2 -> sha256(transactions[1] \o transactions[2])
      [] OTHER ->
            rec_merkle_root(
                [k \in 1 .. ((n + 1) \div 2) |->
                    from_utf8_lossy(sha256(
                        IF 2 * k <= n
                        THEN transactions[2 * k - 1] \o transactions[2 * k]
                        ELSE transactions[n] \o transactions[n]))])

get_merkle_root(transactions) ==
    rec_merkle_root([i \in DOMAIN transactions |->
                        Transaction_serialize(transactions[i])])

\* BlockHeader::new; timestamp is get_timestamp(), the nonce starts at zero
BlockHeader_new(prev_hash, merkle_root, version, difficulty, height, timestamp) ==
    [prev_hash |-> prev_hash, merkle_root |-> merkle_root,
     timestamp |-> timestamp, difficulty |-> difficulty, nonce |-> 0,
     version |-> version, height |-> height]

\* Block::new
Block_new(transactions, prev_hash, difficulty, version, height, timestamp) ==
    [block_header |-> BlockHeader_new(prev_hash, get_merkle_root(transactions),
                                      version, difficulty, height, timestamp),
     transactions |-> transactions,
     transaction_count |-> Len(transactions)]

\* Block::to_string (serde_json), as an injective flattening
Block_to_string(block) ==
    LET h == block.block_header IN
    SerBytes(h.prev_hash) \o SerBytes(h.merkle_root)
        \o <<h.timestamp, h.difficulty, h.nonce, h.version, h.height>>
        \o <<Len(block.transactions)>>
        \o Concat([i \in DOMAIN block.transactions |->
                      SerBytes(Transaction_serialize(block.transactions[i]))])
        \o <<block.transaction_count>>

calculate_hash(block) == sha256(Block_to_string(block))

update_nonce(block, nonce) == [block EXCEPT !.block_header.nonce = nonce]

(* --------------------------------- Node -------------------------------- *)
\* network.rs DIFFICULTY
DIFFICULTY == 3
\* Node::new: reward
REWARD == 10

Node_new(user) ==
    [user |-> user, height |-> 0, version |-> 0, mempool |-> Mempool_new,
     headers |-> <<>>, block_chain |-> <<>>, difficulty |-> DIFFICULTY,
     reward |-> REWARD, utxos |-> UTXOS_new,
     wallet |-> Wallet_new(get_pub_key(user))]

\* the loop of add_block and update_blocks that takes the block's
\* transactions out of the mempool; acc is [node, panic]
RECURSIVE RemoveMined(_, _)
RemoveMined(acc, transactions) ==
    IF transactions = <<>> \/ acc.panic THEN acc
    ELSE LET tx == Head(transactions) IN
         IF tx.input_count = 0 THEN RemoveMined(acc, Tail(transactions))
         ELSE LET fee == get_fee(acc.node.utxos, tx)
              IN IF fee.tag # "Some" THEN [acc EXCEPT !.panic = TRUE]
                 ELSE RemoveMined(
                          [acc EXCEPT !.node.mempool =
                              HeapSet_remove(acc.node.mempool,
                                  TransactionWithFee_new(tx, fee.val))],
                          Tail(transactions))

\* a spelling of ApplyBlock that forgets to push the header
ApplyBlock_no_header(n, block) ==
    LET n1 == [n EXCEPT !.utxos = UTXOS_add_block(n.utxos, block),
                        !.block_chain = Append(n.block_chain, block),
                        !.height = n.height + 1]
        w == Wallet_update(n1.wallet, block)
        n2 == [n1 EXCEPT !.wallet = w.wallet]
    IN IF w.panic THEN [node |-> n2, panic |-> TRUE]
       ELSE RemoveMined([node |-> n2, panic |-> FALSE], block.transactions)

\* the body both add_block and update_blocks run for a block once they have
\* decided to take it: [node, panic]
ApplyBlock(n, block) ==
    LET n1 == [n EXCEPT !.utxos = UTXOS_add_block(n.utxos, block),
                        !.block_chain = Append(n.block_chain, block),
                        !.headers = Append(n.headers, block.block_header),
                        !.height = n.height + 1]
        w == Wallet_update(n1.wallet, block)
        n2 == [n1 EXCEPT !.wallet = w.wallet]
    IN IF w.panic THEN [node |-> n2, panic |-> TRUE]
       ELSE RemoveMined([node |-> n2, panic |-> FALSE], block.transactions)

\* a spelling of add_block without the height guard
add_block_no_guard(n, block) ==
    LET r == ApplyBlock(n, block)
    IN [node |-> r.node, ret |-> TRUE, panic |-> r.panic]

\* Node::add_block: [node, ret, panic]
add_block(n, block) ==
    IF block.block_header.height # n.height + 1
    THEN [node |-> n, ret |-> FALSE, panic |-> FALSE]
    ELSE LET r == ApplyBlock(n, block)
         IN [node |-> r.node, ret |-> TRUE, panic |-> r.panic]

RECURSIVE ApplyBlocks(_, _)
ApplyBlocks(acc, blockchain) ==
    IF blockchain = <<>> \/ acc.panic THEN acc
    ELSE ApplyBlocks(ApplyBlock(acc.node, Head(blockchain)), Tail(blockchain))

\* Node::update_blocks: [node, panic]
update_blocks(n, blocks) ==
    IF blocks.start_height = n.height + 1
    THEN ApplyBlocks([node |-> n, panic |-> FALSE], blocks.blockchain)
    ELSE [node |-> n, panic |-> FALSE]

\* the loop of get_next_transactions over the candidates: [node, valid, panic]
RECURSIVE CheckCandidates(_, _)
CheckCandidates(acc, txs) ==
    IF txs = <<>> \/ acc.panic THEN acc
    ELSE LET tx == Head(txs)
             v == validate_transaction(acc.node.utxos, tx)
         IN IF v = "panic" THEN [acc EXCEPT !.panic = TRUE]
            ELSE IF v = "true" THEN CheckCandidates(acc, Tail(txs))
            ELSE LET fee == get_fee(acc.node.utxos, tx)
                 IN IF fee.tag # "Some" THEN [acc EXCEPT !.panic = TRUE]
                    ELSE CheckCandidates(
                             [acc EXCEPT !.valid = FALSE,
                                         !.node.mempool =
                                             HeapSet_remove(acc.node.mempool,
                                                 TransactionWithFee_new(tx, fee.val))],
                             Tail(txs))

\* Node::get_next_transactions: the set of outcomes [node, txs, panic]
RECURSIVE get_next_transactions(_)
get_next_transactions(n) ==
    UNION {LET r == CheckCandidates([node |-> n, valid |-> TRUE, panic |-> FALSE],
                                    txs)
           IN IF r.panic THEN {[node |-> r.node, txs |-> <<>>, panic |-> TRUE]}
              ELSE IF r.valid
              THEN {[node |-> r.node, txs |-> txs, panic |-> FALSE]}
              ELSE get_next_transactions(r.node)
           : txs \in Mempool_get_next_transactions(n.mempool)}

\* a previous hash that is always the one of the empty chain
get_prev_hash_genesis(n) == sha256(<<48, 48>>)

\* Node::get_prev_hash
get_prev_hash(n) ==
    IF n.block_chain # <<>>
    THEN calculate_hash(n.block_chain[Len(n.block_chain)])
    ELSE sha256(<<48, 48>>)

\* Node::get_next_block at the time get_timestamp() = timestamp: the set of
\* outcomes [node, block, panic]
get_next_block(n, timestamp) ==
    {IF r.panic THEN [node |-> r.node, block |-> <<>>, panic |-> TRUE]
     ELSE [node |-> r.node,
           block |-> Block_new(
               Append(r.txs, Transaction_reward(n.reward, get_pub_key(n.user),
                                                n.version, timestamp)),
               get_prev_hash(r.node), n.difficulty, n.version, n.height + 1,
               timestamp),
           panic |-> FALSE]
     : r \in get_next_transactions(n)}

(* ----------------------- the node's surroundings ----------------------- *)
\* the user Node::new creates, and a peer's user
Me == 1
Bob == 2

Timestamps == 1 .. MaxTime

NoBlock == <<>>

CbMe(timestamp) == Transaction_reward(REWARD, get_pub_key(Me), 0, timestamp)
CbBob == Transaction_reward(REWARD, get_pub_key(Bob), 0, 1)

\* the wallet entry the first reward to Me creates
FirstCoin == <<<<TxHash(CbMe(1)), 0>>, CbMe(1).outputs[1]>>

\* what ui.rs submit_transaction builds from FirstCoin for a request to pay
\* amount to Bob with the fee: the change goes back to Me
UiTx(amount, fee) ==
    Transaction_new(0, Me, <<FirstCoin>>,
                    <<<<hex_encode(get_pub_key(Bob)), amount>>,
                      <<hex_encode(get_pub_key(Me)),
                        FirstCoin[2].value - (amount + fee)>>>>, 1)

PayA == UiTx(4, 1)
PayB == UiTx(9, 0)

UiTxs == {PayA, PayB}
\* transactions peers relay
PeerTxs == {PayA, PayB, CbBob}

\* a hash that is no block's
WrongHash == sha256(<<102, 102>>)

\* transaction lists of the blocks peers send
PeerBodies == {<<CbBob>>, <<PayA, CbBob>>}

\* the NewBlock messages peers send to a node in state n: new blocks, and
\* the blocks of its chain echoed back
PeerBlocks(n) ==
    {Block_new(body, prev, n.difficulty, n.version, height, 1)
     : body \in PeerBodies,
       prev \in {get_prev_hash(n), WrongHash},
       height \in {n.height + 1, n.height + 2}}
    \cup Range(n.block_chain)

\* the blocks of a Blocks message, each linked to the one before; a header
\* carries the height of its position or the one after it
RECURSIVE BatchesFrom(_, _, _, _)
BatchesFrom(n, prev, height, len) ==
    IF len = 0 THEN {<<>>}
    ELSE UNION {{<<b>> \o rest
                 : rest \in BatchesFrom(n, calculate_hash(b), height + 1, len - 1)}
                : b \in {Block_new(<<CbBob>>, prev, n.difficulty, n.version, h, 1)
                         : h \in {height, height + 1}}}

\* the Blocks messages peers send to a node in state n
PeerBatches(n) ==
    {[start_height |-> start, blockchain |-> chain]
     : start \in {n.height + 1, n.height + 2},
       chain \in UNION {BatchesFrom(n, get_prev_hash(n), n.height + 1, len)
                        : len \in 1 .. MaxBatch}}

Event(op, ret, panic) == [op |-> op, ret |-> ret, panic |-> panic]

\* no mining thread is followed
NoThreads ==
    [gen |-> 0, stopped |-> {}, th |-> <<>>, stop_cmd |-> "none", ahead |-> 0]

\* every peer is registered in the peer manager and its writer task runs;
\* no handler has sent anything
Connected == [peers |-> Peers, writers |-> Peers, out |-> <<>>]

\* one Response::Send(message) handed to each peer of S, by peer
RECURSIVE SendsTo(_, _)
SendsTo(S, message) ==
    IF S = {} THEN <<>>
    ELSE LET peer == CHOOSE x \in S : \A y \in S : x <= y
         IN <<<<peer, message>>>> \o SendsTo(S \ {peer}, message)

\* PeerManager::send: the peer's entry is unwrapped and the response goes
\* into its channel, which fails once the writer task has dropped the
\* receiver; tag is "Ok", "Err" or "Panic"
PeerManager_send(pm, peer, message) ==
    IF peer \notin pm.peers THEN [tag |-> "Panic", pm |-> pm]
    ELSE IF peer \notin pm.writers THEN [tag |-> "Err", pm |-> pm]
    ELSE [tag |-> "Ok", pm |-> [pm EXCEPT !.out = Append(@, <<peer, message>>)]]

\* PeerManager::broadcast: send to every entry of the map, in the map's
\* order, unwrapping each result: [pm, panic]
PeerManager_broadcast(pm, message) ==
    IF pm.peers \subseteq pm.writers
    THEN {[pm |-> [pm EXCEPT !.out = @ \o SendsTo(pm.peers, message)],
           panic |-> FALSE]}
    ELSE {[pm |-> [pm EXCEPT !.out = @ \o SendsTo(S, message)], panic |-> TRUE]
          : S \in SUBSET (pm.peers \cap pm.writers)}

\* the peer manager as a handler finds it: nothing sent yet
Unsent(pm) == [pm EXCEPT !.out = <<>>]

NetMessage(type, payload) == [type |-> type, payload |-> payload]

\* no event is being handled
NoEvent == [type |-> "none", peer |-> 0, payload |-> <<>>]

\* the router and the command task wait in their receive loops and no lock
\* is held
Idle ==
    [router |-> [pc |-> "recv", event |-> NoEvent, i |-> 0],
     cmd |-> [pc |-> "recv", event |-> NoEvent, i |-> 0],
     readers |-> <<>>, writer |-> "none", pm |-> "none"]

\* no guard of the Node lock is alive: node.write().await returns
NodeFree == tasks.readers = <<>> /\ tasks.writer = "none"

\* the router, or the command task, runs and waits for its next event
RouterReady == router_alive /\ tasks.router.pc = "recv"
CmdReady == cmd_alive /\ tasks.cmd.pc = "recv"

VmIdle == [status |-> "idle"]
QIdle == [status |-> "idle"]

nodeVars == <<node, router_alive, cmd_alive, miner_pc, candidate, network_rx,
              mining_rx, last, threads, net, tasks>>

(* ------------------------------- actions ------------------------------- *)
Init ==
    /\ overflow_checks \in BOOLEAN
    /\ node = Node_new(Me)
    /\ router_alive = TRUE
    /\ cmd_alive = TRUE
    /\ miner_pc = "init"
    /\ candidate = NoBlock
    /\ network_rx = <<>>
    /\ mining_rx = 0
    /\ last = Event("init", FALSE, FALSE)
    /\ vm = VmIdle
    /\ q = QIdle
    /\ threads = NoThreads
    /\ net = Connected
    /\ tasks = Idle

\* miner_tx.send(MiningCommand::UpdateBlock).await.unwrap() by a handler:
\* the command is queued, or the unwrap panics because the coordinator (the
\* receiver) is gone; a command queued behind Stop is never received and is
\* not counted
SendUpdateBlock(alive_after) ==
    IF miner_pc \in {"dead", "done"}
    THEN alive_after = FALSE /\ UNCHANGED mining_rx
    ELSE IF threads.stop_cmd # "none"
    THEN alive_after = TRUE /\ UNCHANGED mining_rx
    ELSE /\ alive_after = TRUE
         /\ mining_rx < MaxPending
         /\ mining_rx' = mining_rx + 1

\* start_mine_handling up to the first spawn_threads
MinerStart ==
    /\ miner_pc = "init"
    /\ NodeFree
    /\ \E timestamp \in Timestamps : \E r \in get_next_block(node, timestamp) :
          /\ node' = r.node
          /\ candidate' = r.block
          /\ miner_pc' = IF r.panic THEN "dead" ELSE "run"
          /\ last' = Event("get_next_block", ~r.panic, r.panic)
    /\ UNCHANGED <<overflow_checks, router_alive, cmd_alive, network_rx,
                   mining_rx, vm, q, threads, tasks, net>>

\* start_mine_handling, UpdateBlock arm: the threads are joined, then a new
\* candidate is taken and new threads are spawned
MinerUpdateBlock ==
    /\ miner_pc = "run"
    /\ mining_rx > 0
    /\ NodeFree
    /\ mining_rx' = mining_rx - 1
    /\ \E timestamp \in Timestamps : \E r \in get_next_block(node, timestamp) :
          /\ node' = r.node
          /\ candidate' = r.block
          /\ miner_pc' = IF r.panic THEN "dead" ELSE "run"
          /\ last' = Event("get_next_block", ~r.panic, r.panic)
    /\ UNCHANGED <<overflow_checks, router_alive, cmd_alive, network_rx, vm, q, threads, tasks, net>>

\* Block::mine: a thread finds a nonce and try_sends the block
MineBlock ==
    /\ miner_pc = "run"
    /\ candidate # NoBlock
    /\ candidate.block_header.height <= MaxHeight
    /\ cmd_alive
    /\ Len(network_rx) < MaxQueued
    /\ \E nonce \in 1 .. MaxNonce :
          network_rx' = Append(network_rx, update_nonce(candidate, nonce))
    /\ last' = Event("mine", TRUE, FALSE)
    /\ UNCHANGED <<overflow_checks, node, router_alive, cmd_alive, miner_pc,
                   candidate, mining_rx, vm, q, threads, tasks, net>>

\* network_command_handling, Block arm
CmdBlock ==
    /\ CmdReady
    /\ network_rx # <<>>
    /\ NodeFree
    /\ LET block == Head(network_rx)
           r == add_block(node, block)
       IN /\ network_rx' = Tail(network_rx)
          /\ node' = r.node
          /\ IF r.panic
             THEN /\ cmd_alive' = FALSE
                  /\ last' = Event("CmdBlock", FALSE, TRUE)
                  /\ net' = Unsent(net)
                  /\ UNCHANGED mining_rx
             ELSE IF ~r.ret
             THEN /\ last' = Event("CmdBlock", FALSE, FALSE)
                  /\ net' = Unsent(net)
                  /\ UNCHANGED <<cmd_alive, mining_rx>>
             ELSE \E b \in PeerManager_broadcast(Unsent(net),
                                                 NetMessage("NewBlock", block)) :
                     /\ net' = b.pm
                     /\ last' = Event("CmdBlock", TRUE, b.panic)
                     /\ IF b.panic
                        THEN cmd_alive' = FALSE /\ UNCHANGED mining_rx
                        ELSE SendUpdateBlock(cmd_alive')
    /\ UNCHANGED <<overflow_checks, router_alive, miner_pc, candidate, vm, q, threads, tasks>>

\* network_command_handling, Transaction arm, for a transaction the UI built
\* when FirstCoin was in the wallet
CmdTransactionOf(transaction) ==
    /\ CmdReady
    /\ \E i \in DOMAIN node.block_chain :
          CbMe(1) \in Range(node.block_chain[i].transactions)
    /\    LET v == validate_transaction(node.utxos, transaction)
              fee == get_fee(node.utxos, transaction)
          IN IF v = "panic" \/ (v = "true" /\ fee.tag # "Some")
             THEN /\ cmd_alive' = FALSE
                  /\ last' = Event("CmdTransaction", FALSE, TRUE)
                  /\ net' = Unsent(net)
                  /\ UNCHANGED node
             ELSE IF v = "false"
             THEN /\ last' = Event("CmdTransaction", FALSE, FALSE)
                  /\ net' = Unsent(net)
                  /\ UNCHANGED <<node, cmd_alive>>
             ELSE LET a == Mempool_add(node.mempool, transaction, fee.val)
                  IN \E b \in PeerManager_broadcast(
                                  Unsent(net), NetMessage("Transaction", transaction)) :
                        /\ NodeFree
                        /\ node' = [node EXCEPT !.mempool = a.hs]
                        /\ net' = b.pm
                        /\ last' = Event("CmdTransaction", a.ret, b.panic)
                        /\ cmd_alive' = ~b.panic
    /\ UNCHANGED <<overflow_checks, router_alive, miner_pc, candidate,
                   network_rx, mining_rx, vm, q, threads, tasks>>

CmdTransaction == \E transaction \in UiTxs : CmdTransactionOf(transaction)

\* start_network_handler, Transaction arm, for the message
\* Transaction(transaction).  The guard of the first node.read().await is a
\* temporary of the if-let condition, so it lives until the end of the
\* body; the body starts with node.write().await, which waits until no read
\* guard is left: the router waits for its own guard and neither
\* mempool.add nor the broadcast is reached
TransactionMsg(transaction) ==
    /\ RouterReady
    /\ tasks.writer = "none"
    /\    LET fee == get_fee(node.utxos, transaction)
              v == validate_transaction(node.utxos, transaction)
          IN IF fee.tag = "Panic" \/ (fee.tag = "Some" /\ v = "panic")
             THEN /\ router_alive' = FALSE
                  /\ last' = Event("Transaction", FALSE, TRUE)
                  /\ UNCHANGED tasks
             ELSE IF fee.tag = "None" \/ v = "false"
             THEN /\ last' = Event("Transaction", FALSE, FALSE)
                  /\ UNCHANGED <<router_alive, tasks>>
             ELSE /\ last' = Event("Transaction", FALSE, FALSE)
                  /\ tasks' = [tasks EXCEPT
                                  !.router = [pc |-> "tx_write",
                                              event |-> [type |-> "Transaction",
                                                         peer |-> 0,
                                                         payload |-> transaction],
                                              i |-> 0],
                                  !.readers = Append(@, "router")]
                  /\ UNCHANGED router_alive
    /\ net' = Unsent(net)
    /\ UNCHANGED <<overflow_checks, node, cmd_alive, miner_pc, candidate,
                   network_rx, mining_rx, vm, q, threads>>

RouterTransaction == \E transaction \in PeerTxs : TransactionMsg(transaction)

\* start_network_handler, NewBlock arm, for the message NewBlock(block): what
\* the arm does to the node, its channels and its peers
NewBlockArm(block) ==
    /\ RouterReady
    /\ node.height < MaxHeight
    /\ LET r == add_block(node, block)
       IN /\ node' = r.node
          /\ IF r.panic
             THEN /\ router_alive' = FALSE
                  /\ last' = Event("NewBlock", FALSE, TRUE)
                  /\ net' = Unsent(net)
                  /\ UNCHANGED mining_rx
             ELSE IF ~r.ret
             THEN /\ last' = Event("NewBlock", FALSE, FALSE)
                  /\ net' = Unsent(net)
                  /\ UNCHANGED <<router_alive, mining_rx>>
             ELSE \E b \in PeerManager_broadcast(Unsent(net),
                                                 NetMessage("NewBlock", block)) :
                     /\ net' = b.pm
                     /\ last' = Event("NewBlock", TRUE, b.panic)
                     /\ IF b.panic
                        THEN router_alive' = FALSE /\ UNCHANGED mining_rx
                        ELSE SendUpdateBlock(router_alive')
    /\ UNCHANGED <<overflow_checks, cmd_alive, miner_pc, candidate, network_rx,
                   vm, threads, tasks>>

\* the NewBlock arm of a node whose peers are not followed
NewBlock(block) == NewBlockArm(block) /\ UNCHANGED q

RouterNewBlock == \E block \in PeerBlocks(node) : NewBlock(block)

\* start_network_handler, Blocks arm, for the message Blocks(blocks)
BlocksMsg(blocks) ==
    /\ RouterReady
    /\ LET r == update_blocks(node, blocks)
       IN /\ node' = r.node
          /\ last' = Event("Blocks", ~r.panic, r.panic)
          /\ net' = Unsent(net)
          /\ IF r.panic THEN router_alive' = FALSE /\ UNCHANGED mining_rx
             ELSE SendUpdateBlock(router_alive')
    /\ UNCHANGED <<overflow_checks, cmd_alive, miner_pc, candidate, network_rx,
                   vm, q, threads, tasks>>

RouterBlocks ==
    /\ node.height + MaxBatch <= MaxHeight
    /\ \E blocks \in PeerBatches(node) : BlocksMsg(blocks)

Next ==
    \/ MinerStart
    \/ MinerUpdateBlock
    \/ MineBlock
    \/ CmdBlock
    \/ CmdTransaction
    \/ RouterTransaction
    \/ RouterNewBlock
    \/ RouterBlocks

Spec == Init /\ [][Next]_vars

(* ------------------------- properties of the Node ---------------------- *)
\* the block CmdBlock takes from the channel
Received == Head(network_rx)

\* the inputs of the block's transactions are all in utxos, and some
\* transaction of the block has inputs
SpendsFrom(utxos, block) ==
    /\ \E i \in DOMAIN block.transactions : ~is_coinbase(block.transactions[i])
    /\ \A i \in DOMAIN block.transactions :
          \A k \in DOMAIN block.transactions[i].inputs :
             LET input == block.transactions[i].inputs[k]
             IN <<input.prev, input.output_index>> \in DOMAIN utxos

\* the keys the transactions of the chain name as inputs
SpentInChain ==
    UNION {UNION {{<<tx.inputs[k].prev, tx.inputs[k].output_index>>
                   : k \in DOMAIN tx.inputs}
                  : tx \in Range(node.block_chain[i].transactions)}
           : i \in DOMAIN node.block_chain}

\* the entries of the node's UTXO set that pay the wallet's key
PaysWallet ==
    {key \in DOMAIN node.utxos :
        P2PKHOutput_pubkey_hash(node.utxos[key].script)
            = <<sha256(hex_encode(node.wallet.pub_key))>>}

RECURSIVE SumValues(_, _)
SumValues(utxos, keys) ==
    IF keys = {} THEN 0
    ELSE LET key == CHOOSE k \in keys : TRUE
         IN utxos[key].value + SumValues(utxos, keys \ {key})

\* C1: after any sequence of add_block and update_blocks, block_chain and
\* headers are both height long and headers[i] is the header of
\* block_chain[i]
C1_ChainHeadersHeight ==
    /\ Len(node.block_chain) = node.height
    /\ Len(node.headers) = node.height
    /\ \A i \in DOMAIN node.block_chain :
          node.headers[i] = node.block_chain[i].block_header

C1_Witness ==
    /\ last.op = "Blocks"
    /\ node.height = MaxBatch

\* C2: add_block of a block whose header height is not height + 1 returns
\* false and leaves every field of the Node as it was
C2_WrongHeightChangesNothing ==
    [][/\ \A block \in PeerBlocks(node) :
             (NewBlock(block) /\ block.block_header.height # node.height + 1)
                 => (node' = node /\ ~last'.ret /\ ~last'.panic)
       /\ (CmdBlock /\ Received.block_header.height # node.height + 1)
             => (node' = node /\ ~last'.ret /\ ~last'.panic)]_vars

C2_Witness ==
    /\ last.op = "CmdBlock"
    /\ ~last.ret
    /\ ~last.panic
    /\ node.height > 0

\* C3: every block after the first carries as prev_hash the hash of the
\* block before it in the chain
C3_PrevHashLinks ==
    \A i \in DOMAIN node.block_chain :
       i > 1 => node.block_chain[i].block_header.prev_hash
                    = calculate_hash(node.block_chain[i - 1])

\* C4: the block at position i of the chain (counted from zero) has header
\* height i + 1, also when it came in a batch through update_blocks
C4_HeightIsPosition ==
    \A i \in DOMAIN node.block_chain :
       node.block_chain[i].block_header.height = i

\* C5: no transaction of the mempool names an input that a transaction of
\* the chain has spent
C5_NoSpentInputInMempool ==
    \A tx \in MempoolTxs(node.mempool) :
       \A k \in DOMAIN tx.inputs :
          <<tx.inputs[k].prev, tx.inputs[k].output_index>> \notin SpentInChain

\* C6: the wallet's value is the sum of the UTXO-set entries that pay the
\* wallet's key, and every entry of the wallet is an entry of the UTXO set
C6_WalletMatchesUtxos ==
    /\ node.wallet.value = SumValues(node.utxos, PaysWallet)
    /\ \A key \in DOMAIN node.wallet.utxos :
          /\ key \in DOMAIN node.utxos
          /\ node.utxos[key] = node.wallet.utxos[key]

\* what C7 promises of a step that adds block
AddedCleanly(block) ==
    /\ ~last'.panic
    /\ last'.ret
    /\ node'.block_chain = Append(node.block_chain, block)
    /\ node'.height = node.height + 1
    /\ \A tx \in Range(block.transactions) :
          ~is_coinbase(tx) => tx \notin MempoolTxs(node'.mempool)

\* C7: add_block of a block of the right height whose transactions spend
\* only entries of the UTXO set completes, returns true, appends the block,
\* increments the height and leaves none of the block's spends in the mempool
C7_SpendingBlockAdded ==
    [][/\ \A block \in PeerBlocks(node) :
             (/\ NewBlock(block)
              /\ block.block_header.height = node.height + 1
              /\ SpendsFrom(node.utxos, block))
                 => AddedCleanly(block)
       /\ (/\ CmdBlock
           /\ Received.block_header.height = node.height + 1
           /\ SpendsFrom(node.utxos, Received))
             => AddedCleanly(Received)]_vars

(* ------------------- queries on a UTXO set (SpecUtxo) ------------------ *)
\* the largest amounts: two of them do not fit a usize
BigValue == UsizeMod \div 2

\* a locking script anyone can unlock
OpenScript == <<PUSHBYTES(<<1>>)>>

\* a transaction without inputs, as a peer's block may carry it, that
\* creates one output of the value, locked to Me or open
Mint(value, locked, timestamp) ==
    [Transaction_reward(value, get_pub_key(Me), 0, timestamp)
       EXCEPT !.outputs[1].script = IF locked THEN @ ELSE OpenScript]

CoinOf(mint) == <<<<TxHash(mint), 0>>, mint.outputs[1]>>

\* the ways a transaction names the two coins: the first, both, the first
\* and one that is in no UTXO set, none
Spends(a, b) ==
    {<<CoinOf(a)>>, <<CoinOf(a), CoinOf(b)>>,
     <<CoinOf(a), <<<<WrongHash, 0>>, a.outputs[1]>>>>, <<>>}

QueryAmounts == {<<1>>, <<BigValue>>, <<BigValue, BigValue>>, <<BigValue, 1>>}

\* Transaction::new by Me over the inputs, paying the amounts to Bob; with
\* signed = FALSE the unlocking scripts are left empty
QueryTx(inputs, amounts, signed) ==
    LET tx == Transaction_new(0, Me, inputs,
                  [i \in DOMAIN amounts |->
                      <<hex_encode(get_pub_key(Bob)), amounts[i]>>], 1)
    IN IF signed THEN tx
       ELSE [tx EXCEPT !.inputs =
                [i \in DOMAIN tx.inputs |->
                    [tx.inputs[i] EXCEPT !.script = Script_empty]]]

Queries ==
    UNION {LET a == Mint(va, locked, 1)
               b == Mint(vb, locked, 2)
           IN {[status |-> "built",
                utxos |-> AddTransactions(UTXOS_new, <<a, b>>),
                transaction |-> QueryTx(inputs, amounts, signed),
                fee |-> None,
                valid |-> "false"]
               : inputs \in Spends(a, b), amounts \in QueryAmounts,
                 signed \in BOOLEAN}
           : va \in {1, BigValue}, vb \in {1, BigValue}, locked \in BOOLEAN}

\* a transaction without inputs, as a peer's block may carry it, with two
\* outputs locked by CHECKSIG alone
TwoOutputs ==
    [Mint(1, TRUE, 1) EXCEPT
        !.output_count = 2,
        !.outputs = <<[value |-> 1, script |-> <<CHECKSIG>>],
                      [value |-> 1, script |-> <<CHECKSIG>>]>>]

\* the transactions that spend its second output (output_index 1) as their
\* only input
SecondOutputQueries ==
    {[status |-> "built",
      utxos |-> AddTransactions(UTXOS_new, <<TwoOutputs>>),
      transaction |-> QueryTx(<<<<<<TxHash(TwoOutputs), 1>>,
                                  TwoOutputs.outputs[2]>>>>,
                              amounts, signed),
      fee |-> None,
      valid |-> "false"]
     : amounts \in QueryAmounts, signed \in BOOLEAN}

InitUtxo ==
    /\ overflow_checks \in BOOLEAN
    /\ node = Node_new(Me)
    /\ router_alive = TRUE
    /\ cmd_alive = TRUE
    /\ miner_pc = "init"
    /\ candidate = NoBlock
    /\ network_rx = <<>>
    /\ mining_rx = 0
    /\ last = Event("init", FALSE, FALSE)
    /\ vm = VmIdle
    /\ q \in Queries \cup SecondOutputQueries
    /\ threads = NoThreads
    /\ net = Connected
    /\ tasks = Idle

\* a call of UTXOS::get_fee
QueryFee ==
    /\ q.status = "built"
    /\ q' = [q EXCEPT !.status = "fee",
                      !.fee = get_fee(q.utxos, q.transaction)]
    /\ UNCHANGED <<overflow_checks, nodeVars, vm>>

\* a call of UTXOS::validate_transaction
QueryValidate ==
    /\ q.status = "fee"
    /\ q' = [q EXCEPT !.status = "done",
                      !.valid = validate_transaction(q.utxos, q.transaction)]
    /\ UNCHANGED <<overflow_checks, nodeVars, vm>>

NextUtxo ==
    \/ QueryFee
    \/ QueryValidate

SpecUtxo == InitUtxo /\ [][NextUtxo]_vars

\* the inputs of the query's transaction that are entries of its UTXO set
KnownInputs ==
    {k \in DOMAIN q.transaction.inputs :
        <<q.transaction.inputs[k].prev, q.transaction.inputs[k].output_index>>
            \in DOMAIN q.utxos}

AllInputsKnown == KnownInputs = DOMAIN q.transaction.inputs

\* the sums as integers, without a width
SumIn ==
    SumSeq([k \in DOMAIN q.transaction.inputs |->
               IF k \in KnownInputs
               THEN q.utxos[<<q.transaction.inputs[k].prev,
                              q.transaction.inputs[k].output_index>>].value
               ELSE 0])

SumOut ==
    SumSeq([k \in DOMAIN q.transaction.outputs |->
               q.transaction.outputs[k].value])

\* C8: get_fee is Some(sum of the named inputs minus sum of the outputs)
\* when every named input is in the set and the outputs do not exceed the
\* inputs, and None otherwise
C8_FeeIsDifference ==
    q.status \in {"fee", "done"} =>
        q.fee = IF AllInputsKnown /\ SumOut <= SumIn
                THEN Some(SumIn - SumOut) ELSE None

\* every input's unlocking script followed by the locking script of the
\* entry it spends validates under the VM
EveryInputValidates ==
    \A k \in DOMAIN q.transaction.inputs :
       LET input == q.transaction.inputs[k]
           utxo == q.utxos[<<input.prev, input.output_index>>]
       IN validate_script(Script_concat(input.script, utxo.script),
                          q.transaction, k - 1, utxo) = "true"

\* C9: validate_transaction is true exactly when the transaction is a
\* coinbase, or get_fee is defined and every input validates under the VM
C9_ValidIffScriptsValidate ==
    q.status = "done" =>
        ((q.valid = "true") <=>
            \/ is_coinbase(q.transaction)
            \/ /\ q.fee.tag = "Some"
               /\ EveryInputValidates)

(* --------------------- the script VM (SpecScript) ---------------------- *)
\* the scenario of tests::script_test: an output locked to locker, spent by
\* a transaction that pays payee; the locking script is P2PKH or CHECKSIG
\* alone
ScenarioUtxo(locker, p2pkh) ==
    [value |-> 10,
     script |-> IF p2pkh THEN P2PKHOutput(get_pub_key_hash(locker))
                ELSE <<CHECKSIG>>]

\* the transaction before its input is signed
ScenarioUnsigned(locker, p2pkh) ==
    [timestamp |-> 1, version |-> 10, input_count |-> 1,
     inputs |-> <<[prev |-> sha256(<<72, 101, 108, 108, 111>>),
                   output_index |-> 1,
                   script |-> ScenarioUtxo(locker, p2pkh).script]>>,
     output_count |-> 1,
     outputs |-> <<[value |-> 10,
                    script |-> P2PKHOutput(get_pub_key_hash(NumUsers))]>>]

\* the signatures a spender may push: over the sighash, over the serialized
\* transaction through User::sign as the test does, over the hex of the
\* sighash through User::sign as Transaction::new does
ScenarioSig(signer, kind, locker, p2pkh) ==
    LET tx == ScenarioUnsigned(locker, p2pkh)
        sighash == compute_sig_hash(tx, 0, ScenarioUtxo(locker, p2pkh))
    IN CASE kind = "sighash" -> EcdsaSign(signer, sighash)
         [] kind = "serialized" -> User_sign(signer, Transaction_serialize(tx))
         [] kind = "hex" -> User_sign(signer, hex_encode(sighash))

\* the same spend built by Transaction::new for the signer
ScenarioNew(signer, locker, p2pkh) ==
    LET tx == ScenarioUnsigned(locker, p2pkh)
    IN Transaction_new(tx.version, signer,
           <<<<<<tx.inputs[1].prev, tx.inputs[1].output_index>>,
               ScenarioUtxo(locker, p2pkh)>>>>,
           <<<<hex_encode(get_pub_key(NumUsers)), tx.outputs[1].value>>>>,
           tx.timestamp)

ScenarioUnlocking(s) ==
    IF s.kind = "new"
    THEN ScenarioNew(s.signer, s.locker, s.p2pkh).inputs[1].script
    ELSE P2PKHInput(ScenarioSig(s.signer, s.kind, s.locker, s.p2pkh),
                    get_pub_key(s.pusher))

ScenarioTx(s) ==
    IF s.kind = "new" THEN ScenarioNew(s.signer, s.locker, s.p2pkh)
    ELSE [ScenarioUnsigned(s.locker, s.p2pkh)
            EXCEPT !.inputs[1].script = ScenarioUnlocking(s)]

\* Transaction::new pushes the key of the user that signs
Scenarios ==
    {s \in [locker : Users, signer : Users, pusher : Users,
            kind : {"sighash", "serialized", "hex", "new"}, p2pkh : BOOLEAN] :
        s.kind = "new" => s.pusher = s.signer}

InitScript ==
    /\ overflow_checks = FALSE
    /\ node = Node_new(Me)
    /\ router_alive = TRUE
    /\ cmd_alive = TRUE
    /\ miner_pc = "init"
    /\ candidate = NoBlock
    /\ network_rx = <<>>
    /\ mining_rx = 0
    /\ last = Event("init", FALSE, FALSE)
    /\ q = QIdle
    /\ threads = NoThreads
    /\ net = Connected
    /\ tasks = Idle
    /\ \E s \in Scenarios :
          vm = [status |-> "run", scenario |-> s, pc |-> 0, stack |-> <<>>,
                script |-> Script_concat(ScenarioUnlocking(s),
                                         ScenarioUtxo(s.locker, s.p2pkh).script)]

\* one turn of the loop of validate_script
VmStep ==
    /\ vm.status = "run"
    /\ vm.pc < Len(vm.script)
    /\ LET s == vm.scenario
           r == ExecOp(vm.stack, vm.script[vm.pc + 1], ScenarioTx(s), 0,
                       ScenarioUtxo(s.locker, s.p2pkh))
       IN vm' = [vm EXCEPT !.stack = r.stack, !.status = r.status,
                           !.pc = vm.pc + 1]
    /\ UNCHANGED <<overflow_checks, nodeVars, q>>

\* the match on stack.last() after the loop
VmFinish ==
    /\ vm.status = "run"
    /\ vm.pc = Len(vm.script)
    /\ vm' = [vm EXCEPT !.status = IF StackAccepts(vm.stack)
                                   THEN "true" ELSE "false"]
    /\ UNCHANGED <<overflow_checks, nodeVars, q>>

NextScript ==
    \/ VmStep
    \/ VmFinish

SpecScript == InitScript /\ [][NextScript]_vars

\* the spender is the user the output is locked to and signs the sighash
HonestSpend ==
    /\ vm.scenario.p2pkh
    /\ vm.scenario.signer = vm.scenario.locker
    /\ vm.scenario.pusher = vm.scenario.locker
    /\ vm.scenario.kind = "sighash"

\* C10: the P2PKH output locked to B, spent with B's signature over the
\* sighash and B's public key, validates: SHA256 of the pushed key is the
\* hash the locking script carries, and the run ends true
C10_HonestSpendValidates ==
    HonestSpend =>
        /\ (vm.status = "run" /\ vm.pc = 4)
              => Top(vm.stack) = get_pub_key_hash(vm.scenario.locker)
        /\ vm.status \in {"run", "true"}

\* the output is locked to one user, the key and the signature pushed are
\* another user's
ForeignLock ==
    /\ vm.scenario.p2pkh
    /\ vm.scenario.locker # vm.scenario.pusher
    /\ vm.scenario.signer = vm.scenario.pusher

\* C11: when the pubkey-hash of the locking script is not that of the user
\* whose key and signature are pushed, the run returns false at EQUALVERIFY
\* (the sixth opcode) and CHECKSIG is never evaluated
C11_ForeignLockFailsAtEqualVerify ==
    ForeignLock =>
        /\ vm.pc <= 6
        /\ vm.pc < 6 => vm.status = "run"
        /\ vm.pc = 6 => (vm.status = "false"
                         /\ vm.script[vm.pc].op = "EQUALVERIFY")

C11_Witness ==
    /\ ForeignLock
    /\ vm.pc = 6
    /\ vm.status = "false"

\* the transaction was built by Transaction::new by the user the spent
\* output belongs to
BuiltByOwner ==
    /\ vm.scenario.kind = "new"
    /\ vm.scenario.signer = vm.scenario.locker

\* C12: the signature Transaction::new puts into an input verifies against
\* compute_sig_hash of the transaction, the input's position and the spent
\* output, so CHECKSIG, once evaluated, accepts it
C12_SignedMessageIsVerifiedMessage ==
    BuiltByOwner =>
        LET s == vm.scenario
            utxo == ScenarioUtxo(s.locker, s.p2pkh)
            unlocking == ScenarioTx(s).inputs[1].script
        IN /\ verify_sig(unlocking[2].data,
                         compute_sig_hash(ScenarioTx(s), 0, utxo),
                         unlocking[1].data)
           /\ (vm.pc >= 1 /\ vm.script[vm.pc].op = "CHECKSIG")
                 => vm.status = "run"

(* ---------------- the mempool driven operation by operation ------------- *)
\* node.mempool is the mempool under test; last records the operation, its
\* argument and what it returned
MaxFillers == 10
LowFee == 1
HighFee == MaxFillers + 2
Fees == {LowFee, HighFee}

\* transactions that only fill the mempool; filler i is offered with fee
\* i + 1, between LowFee and HighFee
Filler(i) == Transaction_reward(i, get_pub_key(Bob), 0, 1)
FillerBatch ==
    [i \in 1 .. MaxFillers |-> TransactionWithFee_new(Filler(i), i + 1)]

\* the transactions single operations are called with
MempoolTxArgs == {PayA, PayB, Filler(1)}

\* the vectors Mempool::update is called with
UpdateBatches ==
    {FillerBatch,
     <<TransactionWithFee_new(PayA, LowFee),
       TransactionWithFee_new(PayA, HighFee)>>,
     <<TransactionWithFee_new(PayB, HighFee),
       TransactionWithFee_new(Filler(1), LowFee)>>}

\* the vectors Mempool::from_vec is called with
\* (a vector of distinct identities, one repeating an identity with two
\* fees in either order, one repeating an item)
LoadVectors ==
    {<<TransactionWithFee_new(PayA, LowFee),
       TransactionWithFee_new(PayB, HighFee)>>,
     <<TransactionWithFee_new(PayA, LowFee),
       TransactionWithFee_new(PayA, HighFee)>>,
     <<TransactionWithFee_new(PayA, HighFee),
       TransactionWithFee_new(PayA, LowFee)>>,
     <<TransactionWithFee_new(PayB, LowFee),
       TransactionWithFee_new(PayB, LowFee)>>}

MempoolEvent(op, arg, ret) ==
    [op |-> op, ret |-> ret, panic |-> FALSE, arg |-> arg]

mempoolFrame ==
    <<overflow_checks, router_alive, cmd_alive, miner_pc, candidate,
      network_rx, mining_rx, vm, q, threads, tasks, net>>

MempoolAdd(tx, fee) ==
    LET r == Mempool_add(node.mempool, tx, fee)
    IN /\ node' = [node EXCEPT !.mempool = r.hs]
       /\ last' = MempoolEvent("add", TransactionWithFee_new(tx, fee), r.ret)
       /\ UNCHANGED mempoolFrame

MempoolUpdate(txs) ==
    /\ node' = [node EXCEPT !.mempool = Mempool_update(node.mempool, txs)]
    /\ last' = MempoolEvent("update", txs, FALSE)
    /\ UNCHANGED mempoolFrame

\* HeapSet::pop on the mempool; None when the heap is empty
MempoolPop ==
    /\ IF HeapSet_pop(node.mempool) = {}
       THEN /\ node' = node
            /\ last' = MempoolEvent("pop", <<>>, None)
       ELSE \E r \in HeapSet_pop(node.mempool) :
               /\ node' = [node EXCEPT !.mempool = r.hs]
               /\ last' = MempoolEvent("pop", <<>>, Some(r.item))
    /\ UNCHANGED mempoolFrame

\* Mempool::remove; ret records whether elements.remove found the item
MempoolRemove(tx) ==
    /\ node' = [node EXCEPT !.mempool = Mempool_remove(node.mempool, tx)]
    /\ last' = MempoolEvent("remove", tx,
                   \E e \in node.mempool.elements : e.transaction = tx)
    /\ UNCHANGED mempoolFrame

MempoolGetNext ==
    /\ \E txs \in Mempool_get_next_transactions(node.mempool) :
          last' = MempoolEvent("get_next_transactions", <<>>, txs)
    /\ UNCHANGED <<node, mempoolFrame>>

MempoolFromVec(v) ==
    /\ node' = [node EXCEPT !.mempool = Mempool_from_vec(v)]
    /\ last' = MempoolEvent("from_vec", v, FALSE)
    /\ UNCHANGED mempoolFrame

NextMempool ==
    \/ \E tx \in {PayA, PayB} : \E fee \in Fees : MempoolAdd(tx, fee)
    \/ \E txs \in UpdateBatches : MempoolUpdate(txs)
    \/ MempoolPop
    \/ \E tx \in MempoolTxArgs : MempoolRemove(tx)
    \/ MempoolGetNext

SpecMempool == Init /\ [][NextMempool]_vars

NextMempoolLoad ==
    \/ NextMempool
    \/ \E v \in LoadVectors : MempoolFromVec(v)

SpecMempoolLoad == Init /\ [][NextMempoolLoad]_vars

\* the identities a heap holds, and how many entries it has
HeapTxs(mempool) == {x.transaction : x \in BagToSet(mempool.heap)}
HeapLen(mempool) == BagCardinality(mempool.heap)

\* C13: after any sequence of add, update, pop, remove and from_vec (from
\* any vector), a transaction is in the heap iff it is in the set and both
\* hold the same number of entries, so that size() counts the heap
C13_HeapAndSetAgree ==
    /\ HeapTxs(node.mempool) = MempoolTxs(node.mempool)
    /\ HeapLen(node.mempool) = Mempool_size(node.mempool)

\* a transaction of this identity is held, in the heap or in the set
Present(mempool, tx) == tx \in HeapTxs(mempool) \cup MempoolTxs(mempool)

FeeOf(mempool, tx) ==
    (CHOOSE e \in mempool.elements : e.transaction = tx).fee

Min(a, b) == IF a <= b THEN a ELSE b

TookCandidate == (MinerStart \/ MinerUpdateBlock) /\ ~last'.panic

\* C17: the block get_next_block returns has height self.height + 1, the
\* hash of the last block of the chain (sha256("00") for the empty chain)
\* as prev_hash, a coinbase paying reward to the node's pubkey-hash as last
\* transaction, and before it at most 10 transactions of the mempool, each
\* of which validate_transaction accepts against the UTXO set
C17_NextBlockShape ==
    [][TookCandidate =>
          LET block == candidate'
              txs == block.transactions
              coinbase == txs[Len(txs)]
          IN /\ block.block_header.height = node.height + 1
             /\ block.block_header.prev_hash =
                   IF node.block_chain = <<>> THEN sha256(<<48, 48>>)
                   ELSE calculate_hash(node.block_chain[Len(node.block_chain)])
             /\ Len(txs) >= 1
             /\ is_coinbase(coinbase)
             /\ coinbase.output_count = 1
             /\ coinbase.outputs =
                   <<[value |-> node.reward,
                      script |-> P2PKHOutput(get_pub_key_hash(node.user))]>>
             /\ Len(txs) - 1 <= TX_PER_BLOCK
             /\ \A i \in 1 .. Len(txs) - 1 :
                   /\ txs[i] \in MempoolTxs(node.mempool)
                   /\ txs[i] \in MempoolTxs(node'.mempool)
                   /\ validate_transaction(node.utxos, txs[i]) = "true"
             /\ node'.utxos = node.utxos]_vars

\* a candidate that follows a block of the chain and carries a transaction
\* of the mempool
C17_Witness ==
    /\ last.op = "get_next_block"
    /\ ~last.panic
    /\ candidate # NoBlock
    /\ Len(candidate.transactions) >= 2
    /\ node.block_chain # <<>>
    /\ candidate.block_header.height = node.height + 1

\* C18: get_next_block never aborts: an invalid candidate, one whose input
\* is missing from the UTXO set included, is removed from the mempool and
\* the selection is retried
C18_NextBlockNeverAborts ==
    [][(MinerStart \/ MinerUpdateBlock) => ~last'.panic]_vars

(* ------------------- Wallet::get_inputs on drawn wallets ---------------- *)
\* the wallet of Me after a block that pays it one coin per value
MaxCoins == 3
CoinValues == {1, 2, BigValue}
CoinLists == UNION {[1 .. n -> CoinValues] : n \in 0 .. MaxCoins}

WalletOf(values) ==
    Wallet_update(Wallet_new(get_pub_key(Me)),
                  [transactions |-> [i \in DOMAIN values |->
                                        Mint(values[i], TRUE, i)]]).wallet

Targets == {0, 2, 3, BigValue, BigValue + 1}

WalletQueries ==
    {[status |-> "built", wallet |-> WalletOf(values), value |-> value,
      result |-> [tag |-> "None", inputs |-> <<>>, total |-> 0]] : values \in CoinLists, value \in Targets}

InitWallet ==
    /\ overflow_checks \in BOOLEAN
    /\ node = Node_new(Me)
    /\ router_alive = TRUE
    /\ cmd_alive = TRUE
    /\ miner_pc = "init"
    /\ candidate = NoBlock
    /\ network_rx = <<>>
    /\ mining_rx = 0
    /\ last = Event("init", FALSE, FALSE)
    /\ vm = VmIdle
    /\ q \in WalletQueries
    /\ threads = NoThreads
    /\ net = Connected
    /\ tasks = Idle

\* a call of Wallet::get_inputs
QueryInputs ==
    /\ q.status = "built"
    /\ \E r \in get_inputs(q.wallet, q.value) :
          q' = [q EXCEPT !.status = "done", !.result = r]
    /\ UNCHANGED <<overflow_checks, nodeVars, vm>>

NextWallet == QueryInputs

SpecWallet == InitWallet /\ [][NextWallet]_vars

\* the sum of the values of the wallet's unspent outputs
WalletTotal(wallet) ==
    LET RECURSIVE Sum(_)
        Sum(keys) == IF keys = {} THEN 0
                     ELSE LET k == CHOOSE x \in keys : TRUE
                          IN wallet.utxos[k].value + Sum(keys \ {k})
    IN Sum(DOMAIN wallet.utxos)

\* C19: get_inputs(target) returns Some((selected, total)) only with
\* selected distinct outputs of the wallet, total the sum of their values
\* and total > target; it returns None exactly when the sum of the wallet's
\* outputs does not exceed target
C19_InputsCoverTarget ==
    q.status = "done" =>
       LET r == q.result
       IN /\ r.tag \in {"Some", "None"}
          /\ r.tag = "None" <=> WalletTotal(q.wallet) <= q.value
          /\ r.tag = "Some" =>
                LET inputs == r.inputs
                IN /\ \A i, j \in DOMAIN inputs :
                         i # j => inputs[i][1] # inputs[j][1]
                   /\ \A i \in DOMAIN inputs :
                         /\ inputs[i][1] \in DOMAIN q.wallet.utxos
                         /\ q.wallet.utxos[inputs[i][1]] = inputs[i][2]
                   /\ r.total =
                         SumSeq([i \in DOMAIN inputs |-> inputs[i][2].value])
                   /\ r.total > q.value

(* ------------- the mining threads of a candidate, step by step ---------- *)
\* threads spawn_threads starts (available_parallelism in the program)
NumThreads == 2
\* blocks one thread may send before the model stops following it
MaxSent == 2

\* generations of mining threads the model follows
MaxGen == MaxHeight + 1

Threads == 1 .. NumThreads

\* the threads of one generation: <<generation, id>>
Instances(gen) == {<<gen, i>> : i \in Threads}

\* spawn_threads for the block with the flag of generation gen: every thread
\* holds a clone of the block, is about to test the flag and has sent nothing
Spawned(gen, block) ==
    [t \in Instances(gen) |-> [pc |-> "check", sent |-> 0, block |-> block]]

\* the threads that have not terminated
Live(th) == {t \in DOMAIN th : th[t].pc # "returned"}

InitMine ==
    /\ overflow_checks \in BOOLEAN
    /\ node = Node_new(Me)
    /\ router_alive = TRUE
    /\ cmd_alive = TRUE
    /\ miner_pc = "init"
    /\ candidate = NoBlock
    /\ network_rx = <<>>
    /\ mining_rx = 0
    /\ last = Event("init", FALSE, FALSE)
    /\ vm = VmIdle
    /\ q = QIdle
    /\ threads = NoThreads
    /\ net = Connected
    /\ tasks = Idle

mineFrame == <<overflow_checks, router_alive, vm, q, net, tasks>>

\* start_mine_handling up to the first spawn_threads
MineStart ==
    /\ miner_pc = "init"
    /\ NodeFree
    /\ \E timestamp \in Timestamps : \E r \in get_next_block(node, timestamp) :
          /\ node' = r.node
          /\ candidate' = r.block
          /\ miner_pc' = IF r.panic THEN "dead" ELSE "run"
          /\ threads' = IF r.panic THEN threads
                        ELSE [threads EXCEPT !.gen = 1,
                                             !.th = Spawned(1, r.block)]
          /\ last' = Event("get_next_block", ~r.panic, r.panic)
    /\ UNCHANGED <<mineFrame, cmd_alive, network_rx, mining_rx>>

\* Block::mine, the loop condition: while !stop.load(), on the flag the
\* thread was spawned with
ThreadCheck(t) ==
    /\ t \in DOMAIN threads.th
    /\ threads.th[t].pc = "check"
    /\ threads' = [threads EXCEPT
                      !.th[t].pc = IF t[1] \in threads.stopped
                                   THEN "returned" ELSE "hash"]
    /\ UNCHANGED <<mineFrame, node, cmd_alive, miner_pc, candidate, network_rx,
                   mining_rx, last>>

\* Block::mine, a nonce whose hash does not meet the difficulty
ThreadMiss(t) ==
    /\ t \in DOMAIN threads.th
    /\ threads.th[t].pc = "hash"
    /\ threads' = [threads EXCEPT !.th[t].pc = "check"]
    /\ UNCHANGED <<mineFrame, node, cmd_alive, miner_pc, candidate, network_rx,
                   mining_rx, last>>

\* Block::mine, a nonce whose hash meets the difficulty: try_send, return on
\* Err (channel full or closed), otherwise go on with the loop
ThreadFind(t) ==
    /\ t \in DOMAIN threads.th
    /\ threads.th[t].pc = "hash"
    /\ threads.th[t].sent < MaxSent
    /\ threads.th[t].block.block_header.height <= MaxHeight
    /\ IF cmd_alive /\ Len(network_rx) < MaxQueued
       THEN /\ \E nonce \in 1 .. MaxNonce :
                  network_rx' = Append(network_rx,
                                       update_nonce(threads.th[t].block, nonce))
            /\ threads' = [threads EXCEPT !.th[t].pc = "check",
                                          !.th[t].sent = @ + 1]
            /\ last' = Event("mine", TRUE, FALSE)
       ELSE /\ threads' = [threads EXCEPT !.th[t].pc = "returned"]
            /\ last' = Event("mine", FALSE, FALSE)
            /\ UNCHANGED network_rx
    /\ UNCHANGED <<mineFrame, node, cmd_alive, miner_pc, candidate, mining_rx>>

\* start_mine_handling, UpdateBlock arm up to the joins: the stop flag is set
MineStop ==
    /\ miner_pc = "run"
    /\ mining_rx > 0
    /\ mining_rx' = mining_rx - 1
    /\ miner_pc' = "join"
    /\ threads' = [threads EXCEPT !.stopped = @ \cup {threads.gen}]
    /\ UNCHANGED <<mineFrame, node, cmd_alive, candidate, network_rx, last>>

\* the rest of the UpdateBlock arm for a coordinator that does not wait for
\* the threads it stopped
MineRespawn_no_join ==
    /\ miner_pc = "join"
    /\ \E timestamp \in Timestamps : \E r \in get_next_block(node, timestamp) :
          /\ node' = r.node
          /\ candidate' = r.block
          /\ miner_pc' = IF r.panic THEN "dead" ELSE "run"
          /\ threads' =
                IF r.panic THEN threads
                ELSE [threads EXCEPT
                         !.gen = @ + 1,
                         !.th = [t \in Live(threads.th)
                                       \cup Instances(threads.gen + 1) |->
                                    IF t \in Live(threads.th) THEN threads.th[t]
                                    ELSE Spawned(threads.gen + 1, r.block)[t]]]
          /\ last' = Event("get_next_block", ~r.panic, r.panic)
    /\ UNCHANGED <<mineFrame, cmd_alive, network_rx, mining_rx>>

\* start_mine_handling, UpdateBlock arm after the joins: a fresh flag, the
\* next candidate, new threads; the joined handles are gone
MineRespawn ==
    /\ miner_pc = "join"
    /\ NodeFree
    /\ Live(threads.th) = {}
    /\ \E timestamp \in Timestamps : \E r \in get_next_block(node, timestamp) :
          /\ node' = r.node
          /\ candidate' = r.block
          /\ miner_pc' = IF r.panic THEN "dead" ELSE "run"
          /\ threads' = IF r.panic THEN threads
                        ELSE [threads EXCEPT
                                 !.gen = @ + 1,
                                 !.th = Spawned(threads.gen + 1, r.block)]
          /\ last' = Event("get_next_block", ~r.panic, r.panic)
    /\ UNCHANGED <<mineFrame, cmd_alive, network_rx, mining_rx>>

\* main after ctrl_c: miner_tx.send(MiningCommand::Stop); ahead records the
\* UpdateBlock commands queued before it
MainSendStop ==
    /\ threads.stop_cmd = "none"
    /\ miner_pc \in {"run", "join"}
    /\ threads' = [threads EXCEPT !.stop_cmd = "queued", !.ahead = mining_rx]
    /\ UNCHANGED <<mineFrame, node, cmd_alive, miner_pc, candidate, network_rx,
                   mining_rx, last>>

\* start_mine_handling, Stop arm: the flag is set and the loop is left
MineStopCommand ==
    /\ miner_pc = "run"
    /\ mining_rx = 0
    /\ threads.stop_cmd = "queued"
    /\ miner_pc' = "stopping"
    /\ threads' = [threads EXCEPT !.stop_cmd = "handled",
                                  !.stopped = @ \cup {threads.gen}]
    /\ UNCHANGED <<mineFrame, node, cmd_alive, candidate, network_rx,
                   mining_rx, last>>

\* start_mine_handling after the loop: the joins, then Ok(())
MineReturn ==
    /\ miner_pc = "stopping"
    /\ Live(threads.th) = {}
    /\ miner_pc' = "done"
    /\ UNCHANGED <<mineFrame, node, cmd_alive, candidate, network_rx,
                   mining_rx, last, threads>>

NextMine ==
    \/ MineStart
    \/ \E t \in DOMAIN threads.th : ThreadCheck(t)
    \/ \E t \in DOMAIN threads.th : ThreadMiss(t)
    \/ \E t \in DOMAIN threads.th : ThreadFind(t)
    \/ CmdBlock
    \/ MineStop
    \/ MineRespawn
    \/ MainSendStop
    \/ MineStopCommand
    \/ MineReturn

SpecMine == InitMine /\ [][NextMine]_vars

\* C20: for one candidate block a mining thread sends at most one
\* NetworkCommand::Block, whether or not the stop flag has been set
C20_OneBlockPerThread ==
    \A t \in DOMAIN threads.th : threads.th[t].sent <= 1

\* C21: every thread of the previous generation has terminated before a
\* thread of the new one starts: all live mining threads belong to the
\* current generation (one stop flag) and hold copies of the current
\* candidate, and the flag of a generation just spawned is not set
C21_OneGenerationAtATime ==
    /\ [](\A t \in Live(threads.th) :
             /\ t[1] = threads.gen
             /\ threads.th[t].block = candidate)
    /\ [][(MineStart \/ MineRespawn) /\ ~last'.panic =>
             /\ Live(threads.th) = {}
             /\ threads'.gen \notin threads'.stopped
             /\ DOMAIN threads'.th = Instances(threads'.gen)]_vars

\* the threads of a later generation are running
C21_Witness ==
    /\ threads.gen >= 2
    /\ Live(threads.th) = Instances(threads.gen)
    /\ threads.gen - 1 \in threads.stopped

\* the tokio scheduler runs the coordinator whenever it can take a step, and
\* the operating system runs every mining thread
FairMine ==
    /\ WF_vars(MineStart)
    /\ WF_vars(MineStop)
    /\ WF_vars(MineRespawn)
    /\ WF_vars(MineStopCommand)
    /\ WF_vars(MineReturn)
    /\ \A t \in UNION {Instances(gen) : gen \in 1 .. MaxGen} :
          /\ WF_vars(ThreadCheck(t))
          /\ WF_vars(ThreadMiss(t) \/ ThreadFind(t))

\* the node a run stores at shutdown after its first block was mined and
\* added, as Node::load restores it
StoredNode ==
    add_block(Node_new(Me),
              Block_new(<<CbMe(1)>>, get_prev_hash(Node_new(Me)), DIFFICULTY,
                        0, 1, 1)).node

\* main started with "load"
InitStop ==
    /\ overflow_checks \in BOOLEAN
    /\ node = StoredNode
    /\ router_alive = TRUE
    /\ cmd_alive = TRUE
    /\ miner_pc = "init"
    /\ candidate = NoBlock
    /\ network_rx = <<>>
    /\ mining_rx = 0
    /\ last = Event("init", FALSE, FALSE)
    /\ vm = VmIdle
    /\ q = QIdle
    /\ threads = NoThreads
    /\ net = Connected
    /\ tasks = Idle

\* a peer's block on the node's tip that holds the payment PayA
SpendingBlock(n) ==
    Block_new(<<PayA, CbBob>>, get_prev_hash(n), n.difficulty, n.version,
              n.height + 1, 1)

\* a peer's answer to GetBlocks that holds no block
EmptyBlocks(n) == [start_height |-> n.height + 1, blockchain |-> <<>>]

\* the mining task while no thread finds a hash, the user submits PayA and a
\* peer sends a Blocks message and a block with PayA
NextStop ==
    \/ MineStart
    \/ \E t \in DOMAIN threads.th : ThreadCheck(t)
    \/ \E t \in DOMAIN threads.th : ThreadMiss(t)
    \/ MineStop
    \/ MineRespawn
    \/ MainSendStop
    \/ MineStopCommand
    \/ MineReturn
    \/ CmdTransactionOf(PayA)
    \/ NewBlock(SpendingBlock(node))
    \/ threads.gen < MaxGen /\ BlocksMsg(EmptyBlocks(node))

FairStop ==
    /\ WF_vars(MineStart)
    /\ WF_vars(MineStop)
    /\ WF_vars(MineRespawn)
    /\ WF_vars(MineStopCommand)
    /\ WF_vars(MineReturn)
    /\ \A t \in UNION {Instances(gen) : gen \in 1 .. MaxGen} :
          WF_vars(ThreadCheck(t)) /\ WF_vars(ThreadMiss(t))

SpecStop == InitStop /\ [][NextStop]_vars /\ FairStop

\* C22: once Stop is queued the coordinator returns with every mining thread
\* terminated, whatever UpdateBlock commands are queued ahead of it: it never
\* ends in another way while Stop waits in the channel (an ended task takes
\* no further step, so it would never return), and once it has returned no
\* thread is live
C22_StopTerminates ==
    /\ threads.stop_cmd = "queued" => miner_pc # "dead"
    /\ miner_pc = "done" => Live(threads.th) = {}

\* C23: of the mined blocks the command task receives for one height only
\* the first extends the chain, by exactly one; a later one changes no Node
\* state, is sent to no peer and causes no UpdateBlock; no two blocks of the
\* chain carry the same height
C23_FirstMinedBlockWins ==
    /\ [](\A i, j \in DOMAIN node.block_chain :
             node.block_chain[i].block_header.height
               = node.block_chain[j].block_header.height => i = j)
    /\ [][CmdBlock =>
            IF Received.block_header.height = node.height + 1
            THEN /\ node'.block_chain = Append(node.block_chain, Received)
                 /\ node'.height = node.height + 1
            ELSE /\ node' = node
                 /\ net'.out = <<>>
                 /\ mining_rx' = mining_rx]_vars

\* a second block for the height the chain has reached was refused while its
\* thread is the one that sent the first, or another one of the generation
C23_Witness ==
    /\ last = Event("CmdBlock", FALSE, FALSE)
    /\ node.height >= 1
    /\ \E t \in DOMAIN threads.th :
          /\ threads.th[t].sent >= 1
          /\ threads.th[t].block.block_header.height = node.height

(* ------------------------- the router and the peers -------------------- *)
\* the Verack messages a peer may send
Veracks == [index : {0, 1}, height : 0 .. MaxHeight]

\* the start heights a peer may ask for
StartHeights == 0 .. MaxHeight + 2

\* a Close arm that leaves the peer's entry in the map
CloseEvent_keep_entry(peer) ==
    /\ RouterReady
    /\ peer \in net.peers
    /\ net' = Unsent(net)
    /\ last' = Event("Close", TRUE, FALSE)
    /\ UNCHANGED <<overflow_checks, node, router_alive, cmd_alive, miner_pc,
                   candidate, network_rx, mining_rx, vm, q, threads, tasks>>

\* start_network_handler, Close arm: the reader task of the peer met the end
\* of its stream and has returned
CloseEvent(peer) ==
    /\ RouterReady
    /\ peer \in net.peers
    /\ net' = [Unsent(net) EXCEPT !.peers = @ \ {peer}]
    /\ last' = Event("Close", TRUE, FALSE)
    /\ UNCHANGED <<overflow_checks, node, router_alive, cmd_alive, miner_pc,
                   candidate, network_rx, mining_rx, vm, q, threads, tasks>>

\* connection_sender: write_all fails on a message the last handler put in
\* the channel, the unwrap ends the task and the receiver is dropped
WriterFails(peer) ==
    /\ peer \in net.writers
    /\ \E i \in DOMAIN net.out : net.out[i][1] = peer
    /\ net' = [net EXCEPT !.writers = @ \ {peer}]
    /\ UNCHANGED <<overflow_checks, node, router_alive, cmd_alive, miner_pc,
                   candidate, network_rx, mining_rx, last, vm, q, threads, tasks>>

\* connection_sender: rx.recv() returns None once the peer manager has
\* dropped the only sender, and the task returns
WriterExits(peer) ==
    /\ peer \in net.writers
    /\ peer \notin net.peers
    /\ net' = [net EXCEPT !.writers = @ \ {peer}]
    /\ UNCHANGED <<overflow_checks, node, router_alive, cmd_alive, miner_pc,
                   candidate, network_rx, mining_rx, last, vm, q, threads, tasks>>

\* a Verack arm that answers every Verack with a Verack
Verack_sends_any_index(pm, n, peer, verack) ==
    LET first == PeerManager_send(
                     pm, peer,
                     NetMessage("Verack", [index |-> 1, version |-> n.version,
                                           height |-> n.height]))
        second == IF verack.height > n.height
                  THEN PeerManager_send(
                           first.pm, peer,
                           NetMessage("GetBlocks", [start_height |-> n.height + 1]))
                  ELSE [tag |-> "Ok", pm |-> first.pm]
    IN IF first.tag # "Ok" THEN [pm |-> first.pm, panic |-> TRUE]
       ELSE [pm |-> second.pm, panic |-> second.tag # "Ok"]

\* the two sends of the Verack arm, each unwrapped: [pm, panic]
Verack_sends(pm, n, peer, verack) ==
    LET first == IF verack.index = 0
                 THEN PeerManager_send(
                          pm, peer,
                          NetMessage("Verack", [index |-> 1, version |-> n.version,
                                                height |-> n.height]))
                 ELSE [tag |-> "Ok", pm |-> pm]
        second == IF verack.height > n.height
                  THEN PeerManager_send(
                           first.pm, peer,
                           NetMessage("GetBlocks", [start_height |-> n.height + 1]))
                  ELSE [tag |-> "Ok", pm |-> first.pm]
    IN IF first.tag # "Ok" THEN [pm |-> first.pm, panic |-> TRUE]
       ELSE [pm |-> second.pm, panic |-> second.tag # "Ok"]

\* start_network_handler, Verack arm: what the arm does to the node and its
\* peers
VerackArm(peer, verack) ==
    /\ RouterReady
    /\ peer \in net.peers
    /\ LET r == Verack_sends(Unsent(net), node, peer, verack)
       IN /\ net' = r.pm
          /\ router_alive' = ~r.panic
          /\ last' = Event("Verack", ~r.panic, r.panic)
    /\ UNCHANGED <<overflow_checks, node, cmd_alive, miner_pc, candidate,
                   network_rx, mining_rx, vm, threads, tasks>>

\* the Verack arm of a node whose peers are not followed
VerackMsg(peer, verack) == VerackArm(peer, verack) /\ UNCHANGED q

\* the NewBlock messages of block_chain[from ..], in the order of the loop
BlocksFrom(block_chain, from) ==
    [i \in 1 .. (Len(block_chain) + 1 - from) |->
        NetMessage("NewBlock", block_chain[from + i - 1])]

\* a GetBlocks arm whose slice starts one block late
GetBlocks_sends_from_next(pm, n, peer, start_height) ==
    IF start_height = 0 \/ start_height - 1 > Len(n.block_chain)
    THEN {[pm |-> pm, panic |-> TRUE]}
    ELSE LET messages == BlocksFrom(n.block_chain, start_height + 1)
             sent(k) == [i \in 1 .. k |-> <<peer, messages[i]>>]
         IN IF messages = <<>> THEN {[pm |-> pm, panic |-> FALSE]}
            ELSE IF peer \notin pm.peers \/ peer \notin pm.writers
            THEN {[pm |-> pm, panic |-> TRUE]}
            ELSE {[pm |-> [pm EXCEPT !.out = sent(Len(messages))],
                   panic |-> FALSE]}

\* the loop of the GetBlocks arm: the slice from start_height - 1 panics when
\* the subtraction overflows or the start is past the end of the chain; each
\* block is sent to the peer and the result unwrapped; the peer's writer may
\* fail on one of the messages while the loop sleeps, and the next send
\* finds the channel closed: the outcomes [pm, panic]
GetBlocks_sends(pm, n, peer, start_height) ==
    IF start_height = 0 \/ start_height - 1 > Len(n.block_chain)
    THEN {[pm |-> pm, panic |-> TRUE]}
    ELSE LET messages == BlocksFrom(n.block_chain, start_height)
             sent(k) == [i \in 1 .. k |-> <<peer, messages[i]>>]
         IN IF messages = <<>> THEN {[pm |-> pm, panic |-> FALSE]}
            ELSE IF peer \notin pm.peers \/ peer \notin pm.writers
            THEN {[pm |-> pm, panic |-> TRUE]}
            ELSE {[pm |-> [pm EXCEPT !.out = sent(Len(messages))],
                   panic |-> FALSE]}
                 \cup {[pm |-> [pm EXCEPT !.out = sent(k),
                                           !.writers = @ \ {peer}],
                        panic |-> TRUE] : k \in 1 .. Len(messages) - 1}

\* start_network_handler, GetBlocks arm
GetBlocksMsg(peer, start_height) ==
    /\ RouterReady
    /\ peer \in net.peers
    /\ \E r \in GetBlocks_sends(Unsent(net), node, peer, start_height) :
          /\ net' = r.pm
          /\ router_alive' = ~r.panic
          /\ last' = Event("GetBlocks", ~r.panic, r.panic)
    /\ UNCHANGED <<overflow_checks, node, cmd_alive, miner_pc, candidate,
                   network_rx, mining_rx, vm, q, threads, tasks>>

NextNet ==
    \/ MinerStart
    \/ MinerUpdateBlock
    \/ RouterNewBlock
    \/ \E peer \in Peers : CloseEvent(peer)
    \/ \E peer \in Peers : WriterFails(peer)
    \/ \E peer \in Peers : WriterExits(peer)
    \/ \E peer \in Peers : \E verack \in Veracks : VerackMsg(peer, verack)
    \/ \E peer \in Peers : \E start_height \in StartHeights :
          GetBlocksMsg(peer, start_height)

SpecNet == Init /\ [][NextNet]_vars

\* what the router owes a peer for the Verack it sent
VerackReplies(n, peer, verack) ==
    (IF verack.index = 0
     THEN <<<<peer, NetMessage("Verack", [index |-> 1, version |-> n.version,
                                          height |-> n.height])>>>>
     ELSE <<>>)
    \o (IF verack.height > n.height
        THEN <<<<peer, NetMessage("GetBlocks", [start_height |-> n.height + 1])>>>>
        ELSE <<>>)

\* C24: for a Verack from a peer whose response channel is open the router
\* sends that peer one Verack with index 1, its version and its height iff
\* the index is 0, then GetBlocks from its height + 1 iff the Verack's
\* height exceeds its own, and nothing else to anyone; a Verack with index 1
\* gets no Verack back
C24_VerackReplies ==
    [][\A peer \in Peers : \A verack \in Veracks :
          VerackMsg(peer, verack) /\ peer \in net.writers =>
             /\ net'.out = VerackReplies(node, peer, verack)
             /\ router_alive'
             /\ node' = node]_vars

\* the router answered a Verack with index 0 from a higher peer with a
\* Verack and a GetBlocks
C24_Witness ==
    /\ last = Event("Verack", TRUE, FALSE)
    /\ Len(net.out) = 2
    /\ net.out[1][2].type = "Verack"
    /\ net.out[2][2].type = "GetBlocks"
    /\ node.height >= 1

\* some transaction of the block spends an output that utxos does not hold
SpendsMissing(utxos, block) ==
    \E i \in DOMAIN block.transactions :
       \E k \in DOMAIN block.transactions[i].inputs :
          LET input == block.transactions[i].inputs[k]
          IN <<input.prev, input.output_index>> \notin DOMAIN utxos

\* C25: a NewBlock at the right height with a transaction that spends an
\* output absent from the UTXO set is ignored: the Node is unchanged, nothing
\* is sent to any peer, no UpdateBlock is queued and the router keeps running
C25_InvalidBlockIgnored ==
    [][\A block \in PeerBlocks(node) :
          /\ NewBlock(block)
          /\ block.block_header.height = node.height + 1
          /\ SpendsMissing(node.utxos, block)
          => /\ node' = node
             /\ net'.out = <<>>
             /\ mining_rx' = mining_rx
             /\ router_alive']_vars

\* C26: a peer whose writer task has ended affects only that peer: when the
\* router accepts a NewBlock and broadcasts it, every registered peer whose
\* writer runs is handed the block, and the router and the command task
\* keep running
C26_DeadWriterIsLocal ==
    [][\A block \in PeerBlocks(node) :
          /\ NewBlock(block)
          /\ add_block(node, block).ret
          /\ ~add_block(node, block).panic
          => /\ router_alive'
             /\ cmd_alive'
             /\ \A peer \in net.peers \cap net.writers :
                   \E i \in DOMAIN net'.out :
                      net'.out[i] = <<peer, NetMessage("NewBlock", block)>>]_vars

\* the step put the transaction into a mempool that did not hold it
Inserted(transaction) ==
    /\ ~Present(node.mempool, transaction)
    /\ Present(node'.mempool, transaction)

\* C27: on a Transaction message the router changes nothing but the mempool;
\* a transaction whose fee is defined and which validates is in the mempool
\* afterwards and no other is inserted; it is handed to every peer iff it
\* was newly inserted, and the router goes on to its next event
C27_RelayOnlyNewTransactions ==
    [][\A transaction \in PeerTxs :
          TransactionMsg(transaction) /\ router_alive' =>
             /\ node' = [node EXCEPT !.mempool = node'.mempool]
             /\ HeapTxs(node'.mempool) \subseteq
                   HeapTxs(node.mempool) \cup {transaction}
             /\ Present(node'.mempool, transaction) <=>
                   \/ Present(node.mempool, transaction)
                   \/ /\ get_fee(node.utxos, transaction).tag = "Some"
                      /\ validate_transaction(node.utxos, transaction) = "true"
             /\ net'.out = IF Inserted(transaction)
                           THEN SendsTo(net.peers,
                                        NetMessage("Transaction", transaction))
                           ELSE <<>>
             /\ RouterReady']_vars

\* C28: on a NewBlock the router hands the block to every peer and queues
\* one UpdateBlock iff the block is taken; a block of another height and a
\* block the node already holds are not taken: nothing is sent, nothing is
\* queued and the Node stays as it was, so an echoed block is not relayed
\* again
C28_RelayIffAccepted ==
    [][\A block \in PeerBlocks(node) :
          NewBlock(block) /\ ~add_block(node, block).panic =>
             IF /\ block.block_header.height = node.height + 1
                /\ block \notin Range(node.block_chain)
             THEN /\ net'.out = SendsTo(net.peers, NetMessage("NewBlock", block))
                  /\ mining_rx' = mining_rx + 1
                  /\ router_alive'
             ELSE /\ net'.out = <<>>
                  /\ mining_rx' = mining_rx
                  /\ node' = node]_vars

SpecNetFair ==
    SpecNet /\ \A peer \in Peers : WF_vars(WriterExits(peer))

\* C30: once the router has handled Close(peer) the peer is not in the peer
\* manager and never returns to it, whatever a handler sends goes to
\* registered peers only, and the peer's writer task eventually ends
C30_ClosedPeerIsGone ==
    /\ [][\A peer \in Peers : CloseEvent(peer) => peer \notin net'.peers]_vars
    /\ [][net'.peers \subseteq net.peers]_vars
    /\ [](\A i \in DOMAIN net.out : net.out[i][1] \in net.peers)
    /\ \A peer \in Peers : (peer \notin net.peers) ~> (peer \notin net.writers)

\* a peer was closed while its writer ran, the writer has ended since, and
\* the other peer has been handed a block
C30_Witness ==
    /\ \E peer \in Peers :
          /\ peer \notin net.peers
          /\ peer \notin net.writers
          /\ \A i \in DOMAIN net.out : net.out[i][1] # peer
    /\ last.op = "NewBlock"
    /\ last.ret
    /\ net.out # <<>>

(* ------------------- the tasks, lock by lock, await by await ----------- *)
\* the handlers of the router ("router") and of the command task ("cmd")
\* that take a lock and then await: each await is a state of its own
Handlers == {"router", "cmd"}

\* the task has not panicked
Alive(t) == IF t = "router" THEN router_alive ELSE cmd_alive

\* the task t goes on (ok) or panics; the other task is left alone
AliveAfter(t, ok) ==
    /\ router_alive' = IF t = "router" THEN ok ELSE router_alive
    /\ cmd_alive' = IF t = "cmd" THEN ok ELSE cmd_alive

\* the task is back in its receive loop
Received_by(t) == [pc |-> "recv", event |-> NoEvent, i |-> 0]

\* the readers without one guard of t
RECURSIVE DropGuard(_, _)
DropGuard(readers, t) ==
    IF readers = <<>> THEN <<>>
    ELSE IF Head(readers) = t THEN Tail(readers)
    ELSE <<Head(readers)>> \o DropGuard(Tail(readers), t)

\* add_block under node.write().await in the Block arm (t = "cmd", the block
\* is taken from network_rx) and in the NewBlock arm (t = "router"); the
\* guard is dropped at the end of its block, before the broadcast
TaskAddBlock(t, block) ==
    /\ Alive(t)
    /\ tasks[t].pc = "recv"
    /\ NodeFree
    /\ IF t = "cmd"
       THEN /\ network_rx # <<>>
            /\ block = Head(network_rx)
            /\ network_rx' = Tail(network_rx)
       ELSE /\ node.height < MaxHeight
            /\ UNCHANGED network_rx
    /\ LET r == add_block(node, block)
       IN /\ node' = r.node
          /\ AliveAfter(t, ~r.panic)
          /\ last' = Event("add_block", r.ret, r.panic)
          /\ tasks' = IF r.panic \/ ~r.ret THEN tasks
                      ELSE [tasks EXCEPT ![t] =
                              [pc |-> "lock",
                               event |-> [type |-> "NewBlock", peer |-> 0,
                                          payload |-> block],
                               i |-> 0]]
    /\ net' = Unsent(net)
    /\ UNCHANGED <<overflow_checks, miner_pc, candidate, mining_rx, vm, q, threads>>

\* peer_manager.lock().await before a broadcast
TaskLock(t) ==
    /\ Alive(t)
    /\ tasks[t].pc = "lock"
    /\ tasks.pm = "none"
    /\ tasks' = [tasks EXCEPT ![t].pc = "broadcast", !.pm = t]
    /\ UNCHANGED <<overflow_checks, node, router_alive, cmd_alive, miner_pc,
                   candidate, network_rx, mining_rx, last, vm, q, threads, net>>

\* peer_manager_lock.broadcast(..).await: the sends into the peers' response
\* channels complete while the guard of the mutex is alive; the guard is
\* dropped at the end of the block (or by the panic of an unwrap)
TaskBroadcast(t) ==
    /\ Alive(t)
    /\ tasks[t].pc = "broadcast"
    /\ \E b \in PeerManager_broadcast(net, tasks[t].event) :
          /\ net' = b.pm
          /\ AliveAfter(t, ~b.panic)
          /\ last' = Event("broadcast", ~b.panic, b.panic)
          /\ tasks' = [tasks EXCEPT ![t].pc = "update", !.pm = "none"]
    /\ UNCHANGED <<overflow_checks, node, miner_pc, candidate, network_rx,
                   mining_rx, vm, q, threads>>

\* miner_tx.send(MiningCommand::UpdateBlock).await.unwrap(): the send waits
\* while the channel is full
TaskUpdate(t) ==
    /\ Alive(t)
    /\ tasks[t].pc = "update"
    /\ \E ok \in BOOLEAN : SendUpdateBlock(ok) /\ AliveAfter(t, ok)
    /\ tasks' = [tasks EXCEPT ![t] = Received_by(t)]
    /\ last' = Event("UpdateBlock", TRUE, ~Alive(t)')
    /\ UNCHANGED <<overflow_checks, node, miner_pc, candidate, network_rx,
                   vm, q, threads, net>>

\* start_network_handler, GetBlocks arm, up to the first send: the guard of
\* node.read().await is a temporary of the for loop's iterator expression
\* and lives until the loop ends; the slice panics for a start_height that
\* is 0 (after the subtraction) or beyond the chain
GetBlocksRead(peer, start_height) ==
    /\ RouterReady
    /\ tasks.writer = "none"
    /\ peer \in net.peers
    /\ net' = Unsent(net)
    /\ IF start_height = 0 \/ start_height - 1 > Len(node.block_chain)
       THEN /\ router_alive' = FALSE
            /\ last' = Event("GetBlocks", FALSE, TRUE)
            /\ UNCHANGED tasks
       ELSE IF start_height - 1 = Len(node.block_chain)
       THEN /\ last' = Event("GetBlocks", TRUE, FALSE)
            /\ UNCHANGED <<router_alive, tasks>>
       ELSE /\ last' = Event("GetBlocks", TRUE, FALSE)
            /\ tasks' = [tasks EXCEPT
                            !.router = [pc |-> "block_lock",
                                        event |-> [type |-> "GetBlocks",
                                                   peer |-> peer,
                                                   payload |-> start_height],
                                        i |-> start_height],
                            !.readers = Append(@, "router")]
            /\ UNCHANGED router_alive
    /\ UNCHANGED <<overflow_checks, node, cmd_alive, miner_pc, candidate,
                   network_rx, mining_rx, vm, q, threads>>

\* GetBlocks arm, peer_manager.lock().await in the loop body
GetBlocksLock ==
    /\ router_alive
    /\ tasks.router.pc = "block_lock"
    /\ tasks.pm = "none"
    /\ tasks' = [tasks EXCEPT !.router.pc = "block_send", !.pm = "router"]
    /\ UNCHANGED <<overflow_checks, node, router_alive, cmd_alive, miner_pc,
                   candidate, network_rx, mining_rx, last, vm, q, threads, net>>

\* GetBlocks arm, .send(&peer, NewBlock(block)).await.unwrap(): the guard of
\* the mutex is a temporary of this statement
GetBlocksSend ==
    /\ router_alive
    /\ tasks.router.pc = "block_send"
    /\ LET r == PeerManager_send(net, tasks.router.event.peer,
                                 NetMessage("NewBlock",
                                            node.block_chain[tasks.router.i]))
       IN /\ net' = r.pm
          /\ router_alive' = (r.tag = "Ok")
          /\ last' = Event("send", r.tag = "Ok", r.tag # "Ok")
          /\ tasks' = IF r.tag = "Ok"
                      THEN [tasks EXCEPT !.router.pc = "block_sleep",
                                         !.pm = "none"]
                      ELSE [tasks EXCEPT !.pm = "none",
                                         !.readers = DropGuard(@, "router")]
    /\ UNCHANGED <<overflow_checks, node, cmd_alive, miner_pc, candidate,
                   network_rx, mining_rx, vm, q, threads>>

\* GetBlocks arm, tokio::time::sleep(100 ms).await, then the next block or
\* the end of the loop, where the read guard is dropped
GetBlocksSleep ==
    /\ router_alive
    /\ tasks.router.pc = "block_sleep"
    /\ tasks' = IF tasks.router.i < Len(node.block_chain)
                THEN [tasks EXCEPT !.router.pc = "block_lock",
                                   !.router.i = @ + 1]
                ELSE [tasks EXCEPT !.router = Received_by("router"),
                                   !.readers = DropGuard(@, "router")]
    /\ UNCHANGED <<overflow_checks, node, router_alive, cmd_alive, miner_pc,
                   candidate, network_rx, mining_rx, last, vm, q, threads, net>>

\* the blocks peers send while the tasks are followed step by step
StepBlocks(n) ==
    {Block_new(<<CbBob>>, get_prev_hash(n), n.difficulty, n.version,
               n.height + 1, 1)}
    \cup Range(n.block_chain)

NextLock ==
    \/ MinerStart
    \/ MinerUpdateBlock
    \/ MineBlock
    \/ \E block \in StepBlocks(node) : TaskAddBlock("router", block)
    \/ \E block \in Range(network_rx) : TaskAddBlock("cmd", block)
    \/ \E t \in Handlers : TaskLock(t)
    \/ \E t \in Handlers : TaskBroadcast(t)
    \/ \E t \in Handlers : TaskUpdate(t)
    \/ RouterTransaction
    \/ \E peer \in Peers, start_height \in StartHeights :
          GetBlocksRead(peer, start_height)
    \/ GetBlocksLock
    \/ GetBlocksSend
    \/ GetBlocksSleep

SpecLock == Init /\ [][NextLock]_vars

\* the task awaits a send into a channel or a timed sleep
AwaitsSendOrSleep(t) ==
    tasks[t].pc \in {"broadcast", "update", "block_send", "block_sleep"}

\* the task holds a guard of the Node lock or of the peer-manager mutex
HoldsLock(t) ==
    \/ t \in Range(tasks.readers)
    \/ tasks.writer = t
    \/ tasks.pm = t

\* C31: a task that awaits a channel send or a timed sleep holds neither
\* the Node lock nor the peer-manager mutex
C31_NoLockAcrossAwait ==
    \A t \in Handlers : AwaitsSendOrSleep(t) => ~HoldsLock(t)

\* the router waits for a lock or for room in the mining command channel
RouterBlocked ==
    /\ router_alive
    /\ \/ tasks.router.pc = "tx_write" /\ ~NodeFree
       \/ tasks.router.pc \in {"lock", "block_lock"} /\ tasks.pm # "none"
       \/ /\ tasks.router.pc = "update"
          /\ mining_rx = MaxPending
          /\ miner_pc \notin {"dead", "done"}

\* the command task has a block to handle and waits for the Node lock, or
\* waits for the mutex or for room in the mining command channel
CmdBlocked ==
    /\ cmd_alive
    /\ \/ tasks.cmd.pc = "recv" /\ network_rx # <<>> /\ ~NodeFree
       \/ tasks.cmd.pc = "lock" /\ tasks.pm # "none"
       \/ /\ tasks.cmd.pc = "update"
          /\ mining_rx = MaxPending
          /\ miner_pc \notin {"dead", "done"}

\* the coordinator waits for the Node lock to take the next candidate
CoordinatorBlocked ==
    /\ miner_pc = "init" \/ (miner_pc = "run" /\ mining_rx > 0)
    /\ ~NodeFree

\* C34: the router, the command task and the mining coordinator are never
\* all three waiting for a lock or a full channel that one of the three
\* would have to release
C34_NoDeadlock == ~(RouterBlocked /\ CmdBlocked /\ CoordinatorBlocked)

(* --------------------------- dialing peers ------------------------------ *)
\* PeerManager::new(): nobody is registered yet
Unconnected == [peers |-> {}, writers |-> {}, out |-> <<>>]

\* the address lists of Connect commands (one address) and of PeerAddrs
\* messages
AddressLists(t) ==
    IF t = "cmd" THEN {<<addr>> : addr \in Peers}
    ELSE {<<addr>> : addr \in Peers} \cup {<<a, b>> : a \in Peers, b \in Peers}

\* the address the task is dealing with
Address(t) == tasks[t].event.payload[tasks[t].i]

\* the Verack sent after dialing: the Connect arm reads the Node, the
\* PeerAddrs arm sends Verack::new(0, 1, 1)
DialVerack(t, n) ==
    IF t = "cmd"
    THEN NetMessage("Verack", [index |-> 0, version |-> n.version, height |-> n.height])
    ELSE NetMessage("Verack", [index |-> 0, version |-> 1, height |-> 1])

\* the command task takes Connect(addr), or the router takes
\* PeerAddrs(addresses)
ConnBegin(t, addresses) ==
    /\ Alive(t)
    /\ tasks[t].pc = "recv"
    /\ tasks' = [tasks EXCEPT ![t] =
                    [pc |-> "check",
                     event |-> [type |-> IF t = "cmd" THEN "Connect" ELSE "PeerAddrs",
                                peer |-> 0, payload |-> addresses],
                     i |-> 1]]
    /\ net' = Unsent(net)
    /\ last' = Event("dial", FALSE, FALSE)
    /\ UNCHANGED <<overflow_checks, node, router_alive, cmd_alive, miner_pc,
                   candidate, network_rx, mining_rx, vm, q, threads>>

\* should_connect: the map is cloned under the mutex and asked for the
\* address; the guard is gone before the dial
ConnCheck(t) ==
    /\ Alive(t)
    /\ tasks[t].pc = "check"
    /\ tasks.pm = "none"
    /\ tasks' = IF tasks[t].i > Len(tasks[t].event.payload)
                THEN [tasks EXCEPT ![t] = Received_by(t)]
                ELSE IF Address(t) \in net.peers
                THEN [tasks EXCEPT ![t].i = @ + 1]
                ELSE [tasks EXCEPT ![t].pc = "dial"]
    /\ UNCHANGED <<overflow_checks, node, router_alive, cmd_alive, miner_pc,
                   candidate, network_rx, mining_rx, last, vm, q, threads, net>>

\* TcpStream::connect(addr).await, and for a stream: PeerManager::add of a
\* new channel (HashMap::insert replaces an entry the address has), the
\* reader and the writer task are spawned, the sleep begins
ConnDial(t) ==
    /\ Alive(t)
    /\ tasks[t].pc = "dial"
    /\ tasks.pm = "none"
    /\ \E connected \in BOOLEAN :
          /\ last' = Event("dial", connected, FALSE)
          /\ IF connected
             THEN /\ net' = [net EXCEPT !.peers = @ \cup {Address(t)},
                                        !.writers = @ \cup {Address(t)}]
                  /\ tasks' = [tasks EXCEPT ![t].pc = "sleep"]
             ELSE /\ tasks' = [tasks EXCEPT ![t].pc = "check", ![t].i = @ + 1]
                  /\ UNCHANGED net
    /\ UNCHANGED <<overflow_checks, node, router_alive, cmd_alive, miner_pc,
                   candidate, network_rx, mining_rx, vm, q, threads>>

\* after the sleep: peer_manager_lock.send(&peer, Verack).await.unwrap()
ConnSend(t) ==
    /\ Alive(t)
    /\ tasks[t].pc = "sleep"
    /\ tasks.pm = "none"
    /\ tasks.writer = "none"
    /\ LET r == PeerManager_send(net, Address(t), DialVerack(t, node))
       IN /\ net' = r.pm
          /\ AliveAfter(t, r.tag = "Ok")
          /\ last' = Event("send", r.tag = "Ok", r.tag # "Ok")
          /\ tasks' = IF r.tag = "Ok"
                      THEN [tasks EXCEPT ![t].pc = "check", ![t].i = @ + 1]
                      ELSE tasks
    /\ UNCHANGED <<overflow_checks, node, miner_pc, candidate, network_rx,
                   mining_rx, vm, q, threads>>

InitConn ==
    /\ overflow_checks \in BOOLEAN
    /\ node = Node_new(Me)
    /\ router_alive = TRUE
    /\ cmd_alive = TRUE
    /\ miner_pc = "init"
    /\ candidate = NoBlock
    /\ network_rx = <<>>
    /\ mining_rx = 0
    /\ last = Event("init", FALSE, FALSE)
    /\ vm = VmIdle
    /\ q = QIdle
    /\ threads = NoThreads
    /\ net = Unconnected
    /\ tasks = Idle

NextConn ==
    \/ \E t \in Handlers : \E addresses \in AddressLists(t) : ConnBegin(t, addresses)
    \/ \E t \in Handlers : ConnCheck(t)
    \/ \E t \in Handlers : ConnDial(t)
    \/ \E t \in Handlers : ConnSend(t)
    \/ \E peer \in Peers : CloseEvent(peer)
    \/ \E peer \in Peers : WriterExits(peer)
    \/ \E peer \in Peers, verack \in Veracks : VerackMsg(peer, verack)

SpecConn == InitConn /\ [][NextConn]_vars

\* C32: no task dials an address while the peer manager has an entry for
\* it, so no second connection is opened and no registered channel is
\* replaced
C32_NoSecondDial ==
    [][\A t \in Handlers :
          ConnDial(t) /\ tasks'[t].pc = "sleep" => Address(t) \notin net.peers]_vars

\* the Verack messages among the last handler's sends
VeracksSent == {net.out[i][2] : i \in {j \in DOMAIN net.out : net.out[j][2].type = "Verack"}}

\* C33: every Verack the node sends carries the node's version and height
C33_VerackCarriesOwnHeight ==
    \A message \in VeracksSent :
       /\ message.payload.version = node.version
       /\ message.payload.height = node.height

\* C35: a send to one peer never ends the task that sends
C35_SendNeverAborts ==
    [][\A t \in Handlers : ConnSend(t) => Alive(t)']_vars

\* C37: a GetBlocks whose start_height is 0 or above height + 1 makes the
\* router send nothing and leaves it running, ready for the next event
C37_BadGetBlocksIsIgnored ==
    [][\A peer \in Peers, start_height \in StartHeights :
          /\ GetBlocksMsg(peer, start_height)
          /\ start_height = 0 \/ start_height > node.height + 1
          => /\ net'.out = <<>>
             /\ RouterReady']_vars

\* the verdict of validate_transaction's loop when the input at position k
\* is run with the input index k - 1
RECURSIVE ValidateAtPositions(_, _, _)
ValidateAtPositions(utxos, transaction, k) ==
    IF k > Len(transaction.inputs) THEN "true"
    ELSE LET input == transaction.inputs[k]
             utxo == utxos[<<input.prev, input.output_index>>]
             script == Script_concat(input.script, utxo.script)
             v == validate_script(script, transaction, k - 1, utxo)
         IN IF v = "panic" THEN "panic"
            ELSE IF v = "true" THEN "false"
            ELSE ValidateAtPositions(utxos, transaction, k + 1)

\* C39: validate_transaction runs the input at position i with the input
\* index i, a position of tx.inputs whatever output_index the input names:
\* its verdict is the verdict of the loop run with the positions
C39_InputCheckedAtItsPosition ==
    /\ q.status = "done"
    /\ ~is_coinbase(q.transaction)
    /\ q.fee.tag = "Some"
    => q.valid = ValidateAtPositions(q.utxos, q.transaction, 1)

\* the UTXO keys the transaction names as inputs
InputKeys(tx) ==
    {<<tx.inputs[k].prev, tx.inputs[k].output_index>> : k \in DOMAIN tx.inputs}

\* every block of the chain was a candidate of this node: its reward pays Me
OwnChain ==
    \A i \in DOMAIN node.block_chain :
       \E timestamp \in Timestamps :
          node.block_chain[i].transactions[Len(node.block_chain[i].transactions)]
             = CbMe(timestamp)

\* C36: no two transactions of a candidate block name the same UTXO, and a
\* chain of the node's own candidates never leaves more value in the UTXO
\* set than reward times height
C36_CandidateSpendsOnce ==
    /\ candidate # NoBlock =>
          \A i, j \in DOMAIN candidate.transactions :
             i # j => InputKeys(candidate.transactions[i])
                         \cap InputKeys(candidate.transactions[j]) = {}
    /\ OwnChain =>
          SumValues(node.utxos, DOMAIN node.utxos) <= node.reward * node.height

\* an UpdateBlock command waits in the mining channel, or the command task
\* holds a block it will accept and answer with one
UpdateBlockToCome ==
    \/ mining_rx > 0
    \/ /\ cmd_alive
       /\ \E i \in DOMAIN network_rx :
             network_rx[i].block_header.height = node.height + 1

\* C40: while no Stop command was sent and the coordinator waits in its
\* loop, mining has not halted: a mining thread is live, or an UpdateBlock
\* is still to be processed
C40_MiningNeverHaltsSilently ==
    /\ threads.stop_cmd = "none"
    /\ miner_pc = "run"
    => Live(threads.th) # {} \/ UpdateBlockToCome

(* ------------------- two nodes: catching up with a peer ---------------- *)
\* the id each of the two nodes has in the other's peer manager
SyncPeer == CHOOSE peer \in Peers : \A other \in Peers : peer <= other

\* the peer manager of the peer: this node is registered and its writer runs
PeerPm == [peers |-> {SyncPeer}, writers |-> {SyncPeer}, out |-> <<>>]

\* the messages of out that go to peer, in order
RECURSIVE SentTo(_, _)
SentTo(out, peer) ==
    IF out = <<>> THEN <<>>
    ELSE (IF Head(out)[1] = peer THEN <<Head(out)[2]>> ELSE <<>>)
             \o SentTo(Tail(out), peer)

\* the node a peer holds after it took the blocks of chain one by one
RECURSIVE Grown(_, _)
Grown(n, chain) ==
    IF chain = <<>> THEN n
    ELSE Grown(add_block(n, Head(chain)).node, Tail(chain))

\* the peer: Bob's node one block ahead of the stored chain
PeerNode ==
    Grown(Node_new(Bob),
          StoredNode.block_chain
              \o <<Block_new(<<CbBob>>, get_prev_hash(StoredNode), DIFFICULTY,
                             0, StoredNode.height + 1, 1)>>)

\* the peer's router runs, no connection is made yet, nothing is in flight
PeerIdle ==
    [status |-> "peer", node |-> PeerNode, alive |-> TRUE, dialed |-> "none",
     to_node |-> <<>>, to_peer |-> <<>>]

\* this node is new or was loaded at height 1; its only peer is one block or
\* two ahead
InitSync ==
    /\ overflow_checks \in BOOLEAN
    /\ node \in {Node_new(Me), StoredNode}
    /\ router_alive = TRUE
    /\ cmd_alive = TRUE
    /\ miner_pc = "init"
    /\ candidate = NoBlock
    /\ network_rx = <<>>
    /\ mining_rx = 0
    /\ last = Event("init", FALSE, FALSE)
    /\ vm = VmIdle
    /\ q = PeerIdle
    /\ threads = NoThreads
    /\ net = PeerPm
    /\ tasks = Idle

syncFrame == <<overflow_checks, node, router_alive, cmd_alive, miner_pc,
               candidate, network_rx, mining_rx, last, vm, threads, net, tasks>>

\* one side dials the other, from its Connect arm (the command task) or from
\* its PeerAddrs arm (the router), and sends its Verack
SyncDial(side, t) ==
    /\ q.dialed = "none"
    /\ q' = IF side = "node"
            THEN [q EXCEPT !.dialed = side,
                           !.to_peer = Append(@, DialVerack(t, node))]
            ELSE [q EXCEPT !.dialed = side,
                           !.to_node = Append(@, DialVerack(t, q.node))]
    /\ UNCHANGED syncFrame

\* the router of this node takes the peer's Verack
SyncVerack ==
    /\ q.to_node # <<>>
    /\ Head(q.to_node).type = "Verack"
    /\ VerackArm(SyncPeer, Head(q.to_node).payload)
    /\ q' = [q EXCEPT !.to_node = Tail(@),
                      !.to_peer = @ \o SentTo(net'.out, SyncPeer)]

\* the router of this node takes a NewBlock message of the peer
SyncNewBlock ==
    /\ q.to_node # <<>>
    /\ Head(q.to_node).type = "NewBlock"
    /\ NewBlockArm(Head(q.to_node).payload)
    /\ q' = [q EXCEPT !.to_node = Tail(@),
                      !.to_peer = @ \o SentTo(net'.out, SyncPeer)]

\* the router of the peer takes a message of this node, while the connection
\* stays open: the same Verack, GetBlocks and NewBlock arms on the peer's node
PeerHandles ==
    /\ q.alive
    /\ q.to_peer # <<>>
    /\ LET message == Head(q.to_peer)
           rest == [q EXCEPT !.to_peer = Tail(@)]
       IN \/ /\ message.type = "Verack"
             /\ LET r == Verack_sends(PeerPm, q.node, SyncPeer, message.payload)
                IN q' = [rest EXCEPT !.alive = ~r.panic,
                                     !.to_node = @ \o SentTo(r.pm.out, SyncPeer)]
          \/ /\ message.type = "GetBlocks"
             /\ \E r \in GetBlocks_sends(PeerPm, q.node, SyncPeer,
                                         message.payload.start_height) :
                   /\ r.pm.writers = PeerPm.writers
                   /\ q' = [rest EXCEPT !.alive = ~r.panic,
                                        !.to_node = @ \o SentTo(r.pm.out, SyncPeer)]
          \/ /\ message.type = "NewBlock"
             /\ LET r == add_block(q.node, message.payload)
                IN q' = [rest EXCEPT
                            !.node = r.node,
                            !.alive = ~r.panic,
                            !.to_node =
                               IF r.ret /\ ~r.panic
                               THEN Append(@, NetMessage("NewBlock", message.payload))
                               ELSE @]
    /\ UNCHANGED syncFrame

NextSync ==
    \/ MinerStart
    \/ MinerUpdateBlock
    \/ \E side \in {"node", "peer"} : \E t \in Handlers : SyncDial(side, t)
    \/ SyncVerack
    \/ SyncNewBlock
    \/ PeerHandles

\* tokio runs the router and the coordinator of either node whenever they
\* can take a step, and the dialing happens
FairSync ==
    /\ WF_vars(MinerStart)
    /\ WF_vars(MinerUpdateBlock)
    /\ WF_vars(\E side \in {"node", "peer"} : \E t \in Handlers : SyncDial(side, t))
    /\ WF_vars(SyncVerack)
    /\ WF_vars(SyncNewBlock)
    /\ WF_vars(PeerHandles)

SpecSync == InitSync /\ [][NextSync]_vars /\ FairSync

\* C38: once the two nodes are connected and the Veracks are on their way,
\* this node, which is behind, eventually reaches the height of its peer
C38_CatchesUpWithPeer ==
    (q.dialed # "none" /\ q.node.height > node.height)
       ~> (node.height >= q.node.height)
====
